---- MODULE Spec2Model ----
(***************************************************************************)
(* A model of nova-ecs-render-core: the camera transform, the sprite       *)
(* animation frame resolver and the statistics they touch, as implemented  *)
(* by BaseRenderer and BaseGameRenderer, and the debug geometry that       *)
(* BaseDebugRenderer and BasePhysicsDebugRenderer build from the primitive *)
(* draw calls; the transform and render-state stacks; the configuration   *)
(* merges; and the light and layer registries.                            *)
(*                                                                         *)
(* Fixed-point numbers (class Fixed of @esengine/nova-ecs-math) are        *)
(* integers counting units of 1/SCALE: the Fixed value v is the integer    *)
(* v * SCALE.  A vector is a record [x, y] of such integers, a rectangle   *)
(* a record [x, y, width, height].  A camera rotation is kept as a number  *)
(* of eighths of a turn (k stands for the angle k * pi / 4), so that its   *)
(* cosine and sine can be tabulated.                                       *)
(***************************************************************************)
EXTENDS Integers, Sequences, FiniteSets, TLC

VARIABLES camera, viewport, statistics, debugConfig, physicsConfig,
          transformStack, currentTransform, pushed,
          renderStateStack, currentRenderState,
          lights, lightIdCounter, issued, layers, last

\* The transform and render-state stacks of BaseRenderer.  `pushed` is a history
\* variable, not a field: the transforms pushed and not yet popped, oldest first.
stacks == <<transformStack, currentTransform, pushed,
            renderStateStack, currentRenderState>>

(* The light and layer registries of BaseGameRenderer.  `lights` is a Map    *)
(* from id to light, `layers` a Map kept as the list of its values in        *)
(* insertion order.  `issued` is a history variable: the ids addLight has    *)
(* returned so far.                                                          *)
scene == <<lights, lightIdCounter, issued, layers>>

vars == <<camera, viewport, statistics, debugConfig, physicsConfig,
          stacks, scene, last>>

----------------------------------------------------------------------------
(* Bounds of the model *)

\* Resolution of the fixed-point numbers: units per 1.0
SCALE == 4
\* World coordinates range over -MaxCoord .. MaxCoord (in whole units)
MaxCoord == 1
\* Longest frame list of an animation
MaxFrames == 3
\* Times range over -MaxTime .. MaxTime seconds
MaxTime == 4
\* Cap on the statistics counters
MaxDraws == 2
\* Deepest transform and render-state stack
MaxDepth == 3
\* Cap on the number of lights ever added
MaxLights == 3

----------------------------------------------------------------------------
(* Fixed-point arithmetic of the math library *)

\* Math.round(n / d): the nearest integer, halves rounded up
Round(n, d) ==
    IF d > 0 THEN (2 * n + d) \div (2 * d)
             ELSE (2 * (0 - n) + (0 - d)) \div (2 * (0 - d))

\* new Fixed(n / d) for the JavaScript number n / d
FixFromRatio(n, d) == Round(n * SCALE, d)

\* new Fixed(n) for an integer n
Fix(n) == n * SCALE

FixMul(a, b) == Round(a * b, SCALE)

\* a.divide(b) for b # 0
FixDiv(a, b) == Round(a * SCALE, b)

\* a.floor()
FixFloor(a) == (a \div SCALE) * SCALE

Vec(x, y) == [x |-> x, y |-> y]

VecAdd(a, b) == Vec(a.x + b.x, a.y + b.y)

VecSub(a, b) == Vec(a.x - b.x, a.y - b.y)

Rect(x, y, w, h) == [x |-> x, y |-> y, width |-> w, height |-> h]

\* 1000 * cos(k * pi / 4), to three decimals
CosMilli(k) ==
    CASE k % 8 = 0 -> 1000
      [] k % 8 = 1 -> 707
      [] k % 8 = 2 -> 0
      [] k % 8 = 3 -> 0 - 707
      [] k % 8 = 4 -> 0 - 1000
      [] k % 8 = 5 -> 0 - 707
      [] k % 8 = 6 -> 0
      [] OTHER     -> 707

\* 1000 * sin(k * pi / 4) = 1000 * cos((k - 2) * pi / 4)
SinMilli(k) == CosMilli(k + 6)

\* new Fixed(Math.cos(angle)), new Fixed(Math.sin(angle))
FixCos(k) == Round(CosMilli(k) * SCALE, 1000)

FixSin(k) == Round(SinMilli(k) * SCALE, 1000)

\* x' = x cos - y sin, y' = x sin + y cos
Rotate(v, cos, sin) ==
    Vec(FixMul(v.x, cos) - FixMul(v.y, sin),
        FixMul(v.x, sin) + FixMul(v.y, cos))

\* a.intersects(b) for rectangles: the closed rectangles share a point
Intersects(a, b) ==
    /\ a.x <= b.x + b.width
    /\ b.x <= a.x + a.width
    /\ a.y <= b.y + b.height
    /\ b.y <= a.y + a.height

\* p lies in the closed rectangle r
Contains(r, p) ==
    /\ r.x <= p.x /\ p.x <= r.x + r.width
    /\ r.y <= p.y /\ p.y <= r.y + r.height

----------------------------------------------------------------------------
(* Camera transform (BaseGameRenderer) *)

ScreenCenter(vp) == Vec(FixFromRatio(vp.width, 2), FixFromRatio(vp.height, 2))

\* worldToScreen with the sign of the sine terms exchanged
worldToScreen_sineSign(cam, vp, worldPos) ==
    LET cameraRelative == VecSub(worldPos, cam.position)
        scaled == Vec(FixMul(cameraRelative.x, cam.zoom),
                      FixMul(cameraRelative.y, cam.zoom))
        rotated == IF cam.rotation # 0
                   THEN Rotate(scaled, FixCos(cam.rotation), 0 - FixSin(cam.rotation))
                   ELSE scaled
    IN  VecAdd(ScreenCenter(vp), rotated)

worldToScreen(cam, vp, worldPos) ==
    LET cameraRelative == VecSub(worldPos, cam.position)
        scaled == Vec(FixMul(cameraRelative.x, cam.zoom),
                      FixMul(cameraRelative.y, cam.zoom))
        rotated == IF cam.rotation # 0
                   THEN Rotate(scaled, FixCos(cam.rotation), FixSin(cam.rotation))
                   ELSE scaled
    IN  VecAdd(ScreenCenter(vp), rotated)

\* screenToWorld rotating by +rotation instead of -rotation
screenToWorld_noNegate(cam, vp, screenPos) ==
    LET cameraRelative == VecSub(screenPos, ScreenCenter(vp))
        unrotated == IF cam.rotation # 0
                     THEN Rotate(cameraRelative,
                                 FixCos(cam.rotation), FixSin(cam.rotation))
                     ELSE cameraRelative
        unscaled == Vec(FixDiv(unrotated.x, cam.zoom), FixDiv(unrotated.y, cam.zoom))
    IN  VecAdd(unscaled, cam.position)

\* The value screenToWorld returns when camera.zoom # 0
screenToWorld(cam, vp, screenPos) ==
    LET cameraRelative == VecSub(screenPos, ScreenCenter(vp))
        unrotated == IF cam.rotation # 0
                     THEN Rotate(cameraRelative,
                                 FixCos(0 - cam.rotation), FixSin(0 - cam.rotation))
                     ELSE cameraRelative
        unscaled == Vec(FixDiv(unrotated.x, cam.zoom), FixDiv(unrotated.y, cam.zoom))
    IN  VecAdd(unscaled, cam.position)

\* BaseRenderer.getViewBounds, with screenToWorld as BaseGameRenderer overrides it
getViewBounds(cam, vp) ==
    LET topLeft == screenToWorld(cam, vp, Vec(Fix(vp.x), Fix(vp.y)))
        bottomRight == screenToWorld(cam, vp,
                           Vec(Fix(vp.x + vp.width), Fix(vp.y + vp.height)))
    IN  Rect(topLeft.x, topLeft.y,
             bottomRight.x - topLeft.x, bottomRight.y - topLeft.y)

\* The value isVisible returns when camera.zoom # 0
isVisible(cam, vp, bounds) == Intersects(bounds, getViewBounds(cam, vp))

(* How a call ends.  The code checks neither the zoom nor the playback      *)
(* speed: a zero divisor goes to Fixed.divide of the math library, and the   *)
(* call ends however that division ends ("divisionByZero": the library's own *)
(* arithmetic error or a non-finite number).  No call of this code ends with *)
(* an error of its own.                                                      *)
Returned(v) == [status |-> "ok", value |-> v]

DivisionByZero == [status |-> "divisionByZero"]

screenToWorldOutcome(cam, vp, screenPos) ==
    IF cam.zoom = 0
    THEN DivisionByZero
    ELSE Returned(screenToWorld(cam, vp, screenPos))

isVisibleOutcome(cam, vp, bounds) ==
    IF cam.zoom = 0
    THEN DivisionByZero
    ELSE Returned(isVisible(cam, vp, bounds))

----------------------------------------------------------------------------
(* Sprite animation frame resolver (BaseGameRenderer) *)

(* An animation is [frames, loop, playbackSpeed]; frames is the sequence of  *)
(* the frames' durations, and a frame is named by its place in it, counted   *)
(* from 1 (frames[0] of the code is frame 1).                                *)

\* The resolver's null
NoFrame == 0

\* The renderer as a method sees it through `this`
Self == [camera |-> camera, viewport |-> viewport, statistics |-> statistics]

RECURSIVE TotalDuration(_, _)
\* The first loop: the sum of duration / playbackSpeed over the frames
TotalDuration(frames, speed) ==
    IF frames = <<>> THEN 0
    ELSE FixDiv(Head(frames), speed) + TotalDuration(Tail(frames), speed)

RECURSIVE WalkFrames_lessOrEqual(_, _, _, _, _)
\* The second loop with <= for <: a boundary keeps the earlier frame
WalkFrames_lessOrEqual(frames, speed, animTime, i, acc) ==
    IF i > Len(frames) THEN Len(frames)
    ELSE IF animTime <= acc + FixDiv(frames[i], speed) THEN i
    ELSE WalkFrames_lessOrEqual(frames, speed, animTime, i + 1,
                                acc + FixDiv(frames[i], speed))

RECURSIVE WalkFrames(_, _, _, _, _)
\* The second loop, at frame i with accumulatedTime acc
WalkFrames(frames, speed, animTime, i, acc) ==
    IF i > Len(frames) THEN Len(frames)
    ELSE IF animTime < acc + FixDiv(frames[i], speed) THEN i
    ELSE WalkFrames(frames, speed, animTime, i + 1, acc + FixDiv(frames[i], speed))

\* The loop branch: currentTime - floor(currentTime / totalDuration) * totalDuration
LoopTime(currentTime, totalDuration) ==
    currentTime - FixMul(FixFloor(FixDiv(currentTime, totalDuration)), totalDuration)

\* The resolver wrapping every animation around, looping or not
getCurrentAnimationFrame_alwaysLoop(self, animation, currentTime) ==
    IF Len(animation.frames) = 0 THEN Returned(NoFrame)
    ELSE IF animation.playbackSpeed = 0 THEN DivisionByZero
    ELSE LET totalDuration == TotalDuration(animation.frames, animation.playbackSpeed)
         IN  IF totalDuration = 0 THEN Returned(1)
             ELSE Returned(WalkFrames(animation.frames, animation.playbackSpeed,
                                      LoopTime(currentTime, totalDuration), 1, 0))

\* The resolver without the test for a total duration of zero
getCurrentAnimationFrame_noZeroCheck(self, animation, currentTime) ==
    IF Len(animation.frames) = 0 THEN Returned(NoFrame)
    ELSE IF animation.playbackSpeed = 0 THEN DivisionByZero
    ELSE LET totalDuration == TotalDuration(animation.frames, animation.playbackSpeed)
         IN  IF animation.loop
             THEN IF totalDuration = 0 THEN DivisionByZero
                  ELSE Returned(WalkFrames(animation.frames, animation.playbackSpeed,
                                           LoopTime(currentTime, totalDuration), 1, 0))
             ELSE IF currentTime > totalDuration
             THEN Returned(Len(animation.frames))
             ELSE Returned(WalkFrames(animation.frames, animation.playbackSpeed,
                                      currentTime, 1, 0))

\* The resolver wrapping to the first frame at exactly the total duration
getCurrentAnimationFrame_wrapAtEnd(self, animation, currentTime) ==
    IF Len(animation.frames) = 0 THEN Returned(NoFrame)
    ELSE IF animation.playbackSpeed = 0 THEN DivisionByZero
    ELSE LET totalDuration == TotalDuration(animation.frames, animation.playbackSpeed)
         IN  IF totalDuration = 0 THEN Returned(1)
             ELSE IF animation.loop \/ currentTime = totalDuration
             THEN Returned(WalkFrames(animation.frames, animation.playbackSpeed,
                                      LoopTime(currentTime, totalDuration), 1, 0))
             ELSE IF currentTime > totalDuration
             THEN Returned(Len(animation.frames))
             ELSE Returned(WalkFrames(animation.frames, animation.playbackSpeed,
                                      currentTime, 1, 0))

\* The resolver with no frame before the start of an animation that does not loop
getCurrentAnimationFrame_noneBeforeStart(self, animation, currentTime) ==
    IF Len(animation.frames) = 0 THEN Returned(NoFrame)
    ELSE IF animation.playbackSpeed = 0 THEN DivisionByZero
    ELSE LET totalDuration == TotalDuration(animation.frames, animation.playbackSpeed)
         IN  IF totalDuration = 0 THEN Returned(1)
             ELSE IF animation.loop
             THEN Returned(WalkFrames(animation.frames, animation.playbackSpeed,
                                      LoopTime(currentTime, totalDuration), 1, 0))
             ELSE IF currentTime > totalDuration
             THEN Returned(Len(animation.frames))
             ELSE IF currentTime < 0 THEN Returned(NoFrame)
             ELSE Returned(WalkFrames(animation.frames, animation.playbackSpeed,
                                      currentTime, 1, 0))

\* The resolver playing on from a cursor the renderer keeps: the draws so far
getCurrentAnimationFrame_cursor(self, animation, currentTime) ==
    IF Len(animation.frames) = 0 THEN Returned(NoFrame)
    ELSE IF animation.playbackSpeed = 0 THEN DivisionByZero
    ELSE LET totalDuration == TotalDuration(animation.frames, animation.playbackSpeed)
             played == currentTime + Fix(self.statistics.drawCalls)
         IN  IF totalDuration = 0 THEN Returned(1)
             ELSE IF animation.loop
             THEN Returned(WalkFrames(animation.frames, animation.playbackSpeed,
                                      LoopTime(played, totalDuration), 1, 0))
             ELSE IF played > totalDuration
             THEN Returned(Len(animation.frames))
             ELSE Returned(WalkFrames(animation.frames, animation.playbackSpeed,
                                      played, 1, 0))

getCurrentAnimationFrame(self, animation, currentTime) ==
    IF Len(animation.frames) = 0 THEN Returned(NoFrame)
    ELSE IF animation.playbackSpeed = 0 THEN DivisionByZero
    ELSE LET totalDuration == TotalDuration(animation.frames, animation.playbackSpeed)
         IN  IF totalDuration = 0 THEN Returned(1)
             ELSE IF animation.loop
             THEN Returned(WalkFrames(animation.frames, animation.playbackSpeed,
                                      LoopTime(currentTime, totalDuration), 1, 0))
             ELSE IF currentTime > totalDuration
             THEN Returned(Len(animation.frames))
             ELSE Returned(WalkFrames(animation.frames, animation.playbackSpeed,
                                      currentTime, 1, 0))

----------------------------------------------------------------------------
(* Transforms (Transform2D) and the registries' maps *)

\* new Transform2D(position, rotation, scale); the rotation in radians, a Fixed
Transform2D(position, rotation, scale) ==
    [position |-> position, rotation |-> rotation, scale |-> scale]

\* Transform2D.identity(): position ZERO, rotation ZERO, scale ONE
Identity == Transform2D(Vec(0, 0), 0, Vec(Fix(1), Fix(1)))

\* Transform2D.multiply: positions and rotations add, scales multiply
Multiply(this, other) ==
    Transform2D(VecAdd(this.position, other.position),
                this.rotation + other.rotation,
                Vec(FixMul(this.scale.x, other.scale.x),
                    FixMul(this.scale.y, other.scale.y)))

\* The initial render state: BlendMode.Normal, opacity 1.0 (in tenths)
DefaultRenderState == [blendMode |-> "normal", opacityTenths |-> 10]

\* new Map(): no key
EmptyMap == [k \in {} |-> 0]

----------------------------------------------------------------------------
(* Primitive draw calls (BaseRenderer) *)

(* A draw call handed to the backend.  A colour is named by a string, a line *)
(* style is [color, thickness], a shape style [fillColor, strokeColor,       *)
(* strokeThickness] with "none" and 0 for the members it leaves out.         *)
LineStyle(color, thickness) == [color |-> color, thickness |-> thickness]

Line(start, end, style) ==
    [primitive |-> "line", start |-> start, end |-> end, style |-> style]

Polygon(vertices, style) ==
    [primitive |-> "polygon", vertices |-> vertices, style |-> style]

Circle(center, radius, style) ==
    [primitive |-> "circle", center |-> center, radius |-> radius, style |-> style]

\* What a composite draw did: the primitives it emitted and how the call ended
Drawn(emitted, outcome) == [emitted |-> emitted, outcome |-> outcome]

IsPolygon(call) == call.primitive = "polygon"

RECURSIVE SumOfLengths(_)
\* The sum of vertices.length over a sequence of polygons
SumOfLengths(polygons) ==
    IF polygons = <<>> THEN 0
    ELSE Len(Head(polygons).vertices) + SumOfLengths(Tail(polygons))

RECURSIVE SumOfTriangles(_)
\* The sum of Math.max(0, vertices.length - 2) over a sequence of polygons
SumOfTriangles(polygons) ==
    IF polygons = <<>> THEN 0
    ELSE (IF Len(Head(polygons).vertices) > 2
          THEN Len(Head(polygons).vertices) - 2 ELSE 0)
         + SumOfTriangles(Tail(polygons))

PolygonVertices(emitted) == SumOfLengths(SelectSeq(emitted, IsPolygon))

PolygonTriangles(emitted) == SumOfTriangles(SelectSeq(emitted, IsPolygon))

Rectangle(bounds, style) ==
    [primitive |-> "rect", bounds |-> bounds, style |-> style]

Ellipse(bounds, style) ==
    [primitive |-> "ellipse", bounds |-> bounds, style |-> style]

Text(text, position, style) ==
    [primitive |-> "text", text |-> text, position |-> position, style |-> style]

Texture(texture, position) ==
    [primitive |-> "texture", texture |-> texture, position |-> position]

\* drawTexture and drawTextureRegion bind a texture
IsTexture(call) == call.primitive \in {"texture", "textureRegion"}

\* The statistics with every composite draw counted as one draw call
Counted_oneCallEach(stats, emitted) ==
    [stats EXCEPT !.drawCalls = @ + (IF emitted = <<>> THEN 0 ELSE 1),
                  !.vertices = @ + PolygonVertices(emitted),
                  !.triangles = @ + PolygonTriangles(emitted),
                  !.textureBinds = @ + Len(SelectSeq(emitted, IsTexture))]

\* The statistics after the draw calls of `emitted` were counted
Counted(stats, emitted) ==
    [stats EXCEPT !.drawCalls = @ + Len(emitted),
                  !.vertices = @ + PolygonVertices(emitted),
                  !.triangles = @ + PolygonTriangles(emitted),
                  !.textureBinds = @ + Len(SelectSeq(emitted, IsTexture))]

----------------------------------------------------------------------------
(* Debug geometry (BaseDebugRenderer) *)

\* new Fixed(Math.sqrt(n)) for n in units of 1 / SCALE^2: the nearest integer root
RoundSqrt(n) ==
    CHOOSE r \in 0 .. n :
        /\ 4 * n < (2 * r + 1) * (2 * r + 1)
        /\ r = 0 \/ (2 * r - 1) * (2 * r - 1) <= 4 * n

\* v.magnitude()
Magnitude(v) == RoundSqrt(v.x * v.x + v.y * v.y)

\* v.normalize() of a vector that is not zero
Normalize(v) == Vec(FixDiv(v.x, Magnitude(v)), FixDiv(v.y, Magnitude(v)))

\* v.multiply(k) for a scalar k
VecScale(v, k) == Vec(FixMul(v.x, k), FixMul(v.y, k))

(* drawArrow does not look at the length of end - start.  What normalize()   *)
(* makes of the zero vector is the math library's business: it hands back    *)
(* the zero vector, or it divides by the zero length.                        *)
ZeroDirections == {"zeroVector", "divisionByZero"}

\* An optional argument: <<>> when left out, <<v>> when given
Omitted == <<>>

Given(v) == <<v>>

\* drawArrow ending the head lines at headBase -+ perp instead of +-
drawArrow_headsSwapped(config, start, end, color, headSize, zeroDirection) ==
    LET arrowHeadSize == IF headSize = Omitted
                         THEN FixDiv(config.axisLength, Fix(10))
                         ELSE headSize[1]
        style == LineStyle(color, Fix(1))
        shaft == Line(start, end, style)
        direction == IF start = end THEN Vec(0, 0)
                     ELSE Normalize(VecSub(end, start))
        perpendicular == Vec(0 - direction.y, direction.x)
        headBase == VecSub(end, VecScale(direction, arrowHeadSize))
        half == FixDiv(arrowHeadSize, Fix(2))
        headLeft == VecSub(headBase, VecScale(perpendicular, half))
        headRight == VecAdd(headBase, VecScale(perpendicular, half))
    IN  IF start = end /\ zeroDirection = "divisionByZero"
        THEN Drawn(<<shaft>>, DivisionByZero)
        ELSE Drawn(<<shaft, Line(end, headLeft, style), Line(end, headRight, style)>>,
                   Returned(TRUE))

drawArrow(config, start, end, color, headSize, zeroDirection) ==
    LET arrowHeadSize == IF headSize = Omitted
                         THEN FixDiv(config.axisLength, Fix(10))
                         ELSE headSize[1]
        style == LineStyle(color, Fix(1))
        shaft == Line(start, end, style)
        direction == IF start = end THEN Vec(0, 0)
                     ELSE Normalize(VecSub(end, start))
        perpendicular == Vec(0 - direction.y, direction.x)
        headBase == VecSub(end, VecScale(direction, arrowHeadSize))
        half == FixDiv(arrowHeadSize, Fix(2))
        headLeft == VecAdd(headBase, VecScale(perpendicular, half))
        headRight == VecSub(headBase, VecScale(perpendicular, half))
    IN  IF start = end /\ zeroDirection = "divisionByZero"
        THEN Drawn(<<shaft>>, DivisionByZero)
        ELSE Drawn(<<shaft, Line(end, headLeft, style), Line(end, headRight, style)>>,
                   Returned(TRUE))

\* drawCrosshair: a horizontal and a vertical line of length size through position
drawCrosshair(position, size, color) ==
    LET halfSize == FixDiv(size, Fix(2))
        style == LineStyle(color, Fix(1))
    IN  Drawn(<<Line(Vec(position.x - halfSize, position.y),
                     Vec(position.x + halfSize, position.y), style),
                Line(Vec(position.x, position.y - halfSize),
                     Vec(position.x, position.y + halfSize), style)>>,
              Returned(TRUE))

(* A viewport holds JavaScript numbers.  Those of the game renderer are     *)
(* whole; a viewport with a member `per` gives its numbers in units of      *)
(* 1 / per (x |-> -24, per |-> 10 is the number -2.4).                      *)
ViewportUnit(vp) == IF "per" \in DOMAIN vp THEN vp.per ELSE 1

(* BaseRenderer.getViewBounds with BaseRenderer's own screenToWorld, the     *)
(* identity, which the debug renderers inherit: the corners of the viewport, *)
(* each number made a Fixed.                                                 *)
BaseRenderer_getViewBounds(vp) ==
    LET left == FixFromRatio(vp.x, ViewportUnit(vp))
        top == FixFromRatio(vp.y, ViewportUnit(vp))
        right == FixFromRatio(vp.x + vp.width, ViewportUnit(vp))
        bottom == FixFromRatio(vp.y + vp.height, ViewportUnit(vp))
    IN  Rect(left, top, right - left, bottom - top)

(* A grid style is [lineStyle, majorLineStyle, majorLineInterval]:           *)
(* majorLineStyle is Omitted or Given(style), and majorLineInterval is 0     *)
(* when it is left out (undefined and 0 are both falsy).                     *)
\* The grid naming a line major when lineCount % interval is 1
GridLineStyle_offByOne(style, lineCount) ==
    LET isMainLine == /\ style.majorLineStyle # Omitted
                      /\ style.majorLineInterval # 0
                      /\ lineCount % style.majorLineInterval
                           = 1 % style.majorLineInterval
    IN  IF isMainLine THEN style.majorLineStyle[1] ELSE style.lineStyle

GridLineStyle(style, lineCount) ==
    LET isMainLine == /\ style.majorLineStyle # Omitted
                      /\ style.majorLineInterval # 0
                      /\ lineCount % style.majorLineInterval = 0
    IN  IF isMainLine THEN style.majorLineStyle[1] ELSE style.lineStyle

\* The loop running while the line is less than one spacing past the end
GridPasses_onePastEnd(start, end, spacing) ==
    IF start <= end THEN (end - start) \div spacing + 2 ELSE 0

(* The number of passes of `for (x = start; x <= end; x = x + spacing)` for *)
(* spacing > 0; pass k (from 1) has x = start + (k - 1) * spacing and        *)
(* lineCount = k - 1.                                                        *)
GridPasses(start, end, spacing) ==
    IF start <= end THEN (end - start) \div spacing + 1 ELSE 0

\* The lines of the first loop of drawGrid (spacing > 0)
VerticalLines(startX, bounds, spacing, style) ==
    [k \in 1 .. GridPasses(startX, bounds.x + bounds.width, spacing) |->
        Line(Vec(startX + (k - 1) * spacing, bounds.y),
             Vec(startX + (k - 1) * spacing, bounds.y + bounds.height),
             GridLineStyle(style, k - 1))]

\* The lines of the second loop of drawGrid (spacing > 0)
HorizontalLines(startY, bounds, spacing, style) ==
    [k \in 1 .. GridPasses(startY, bounds.y + bounds.height, spacing) |->
        Line(Vec(bounds.x, startY + (k - 1) * spacing),
             Vec(bounds.x + bounds.width, startY + (k - 1) * spacing),
             GridLineStyle(style, k - 1))]

\* The call does not return: a loop of it never ends
Diverges == [status |-> "diverges"]

\* The start snapped to the multiple of spacing above the floor
GridStart_snapUp(bound, spacing) ==
    FixMul(FixFloor(FixDiv(bound, spacing)) + Fix(1), spacing)

\* startX and startY: bound.divide(spacing).floor().multiply(spacing)
GridStart(bound, spacing) == FixMul(FixFloor(FixDiv(bound, spacing)), spacing)

(* drawGrid over the view bounds `bounds`.  The code does not look at the    *)
(* sign of spacing.  A spacing of zero goes to Fixed.divide; with a negative *)
(* spacing a loop whose start is not beyond its end steps away from the end  *)
(* and draws line after line without end (the first is recorded).            *)
drawGrid(config, bounds, spacing, style) ==
    IF ~config.showGrid THEN Drawn(<<>>, Returned(TRUE))
    ELSE IF spacing = 0 THEN Drawn(<<>>, DivisionByZero)
    ELSE LET startX == GridStart(bounds.x, spacing)
             startY == GridStart(bounds.y, spacing)
             endX == bounds.x + bounds.width
             endY == bounds.y + bounds.height
         IN  IF spacing > 0
             THEN Drawn(VerticalLines(startX, bounds, spacing, style)
                          \o HorizontalLines(startY, bounds, spacing, style),
                        Returned(TRUE))
             ELSE IF startX <= endX
             THEN Drawn(<<Line(Vec(startX, bounds.y), Vec(startX, endY),
                               GridLineStyle(style, 0))>>, Diverges)
             ELSE IF startY <= endY
             THEN Drawn(<<Line(Vec(bounds.x, startY), Vec(endX, startY),
                               GridLineStyle(style, 0))>>, Diverges)
             ELSE Drawn(<<>>, Returned(TRUE))

\* { ...a, ...b }: the members of b over those of a
Spread(a, b) ==
    [k \in DOMAIN a \cup DOMAIN b |-> IF k \in DOMAIN b THEN b[k] ELSE a[k]]

(* setDebugConfig and setPhysicsDebugConfig: the patch is spread over the    *)
(* configuration, and when it has colors they are spread over the colors of  *)
(* the result, which by then are the patch's own.                            *)
MergeConfig(config, patch) ==
    LET merged == Spread(config, patch)
    IN  IF "colors" \in DOMAIN patch
        THEN [merged EXCEPT !.colors = Spread(merged.colors, patch.colors)]
        ELSE merged

\* config.colors[key], undefined when the colors have no such member
ColorOf(config, key) ==
    IF key \in DOMAIN config.colors THEN config.colors[key] ELSE "undefined"

----------------------------------------------------------------------------
(* Physics debug geometry (BasePhysicsDebugRenderer) *)

(* Math.cos and Math.sin of an angle given in radians as a Fixed (units of   *)
(* 1/SCALE), in millionths: the power series in nested form,                 *)
(*   cos x = 1 - x^2/(1*2) * (1 - x^2/(3*4) * (1 - x^2/(5*6) * ...)),        *)
(*   sin x = x * (1 - x^2/(2*3) * (1 - x^2/(4*5) * ...)),                    *)
(* of TrigTerms factors, right to a few millionths for |x| <= 6.             *)
Million == 1000000

TrigTerms == 12

RECURSIVE CosSeries(_, _, _)
CosSeries(angle, k, inner) ==
    IF k = 0 THEN inner
    ELSE CosSeries(angle, k - 1,
             Million - Round(angle * angle * inner,
                             SCALE * SCALE * (2 * k - 1) * (2 * k)))

RECURSIVE SinSeries(_, _, _)
SinSeries(angle, k, inner) ==
    IF k = 0 THEN Round(angle * inner, SCALE)
    ELSE SinSeries(angle, k - 1,
             Million - Round(angle * angle * inner,
                             SCALE * SCALE * (2 * k) * (2 * k + 1)))

\* new Fixed(Math.cos(angle.toNumber())), new Fixed(Math.sin(angle.toNumber()))
FixCosOf(angle) == Round(CosSeries(angle, TrigTerms, Million) * SCALE, Million)

FixSinOf(angle) == Round(SinSeries(angle, TrigTerms, Million) * SCALE, Million)

(* A shape style is [fillColor, strokeColor, strokeThickness]; a member the  *)
(* code leaves out is "none", a thickness left out 0.                        *)
ShapeStyle(fillColor, strokeColor, strokeThickness) ==
    [fillColor |-> fillColor, strokeColor |-> strokeColor,
     strokeThickness |-> strokeThickness]

\* filled ? { fillColor: shape } : { strokeColor: shape, strokeThickness: ONE }
ColliderStyle(config, filled) ==
    IF filled THEN ShapeStyle(ColorOf(config, "shape"), "none", 0)
    ELSE ShapeStyle("none", ColorOf(config, "shape"), Fix(1))

drawCircleCollider(config, center, radius, filled) ==
    Drawn(<<Circle(center, radius, ColliderStyle(config, filled))>>, Returned(TRUE))

drawPolygonCollider(config, vertices, filled) ==
    Drawn(<<Polygon(vertices, ColliderStyle(config, filled))>>, Returned(TRUE))

\* drawBoxCollider listing the corners (-,-), (+,-), (-,+), (+,+)
drawBoxCollider_crossed(config, center, size, rotation, filled) ==
    LET halfSize == Vec(FixDiv(size.x, Fix(2)), FixDiv(size.y, Fix(2)))
        cos == FixCos(rotation)
        sin == FixSin(rotation)
        corners == <<Vec(0 - halfSize.x, 0 - halfSize.y),
                     Vec(halfSize.x, 0 - halfSize.y),
                     Vec(0 - halfSize.x, halfSize.y),
                     Vec(halfSize.x, halfSize.y)>>
        worldCorners == [i \in 1 .. 4 |->
                            VecAdd(center, Rotate(corners[i], cos, sin))]
    IN  Drawn(<<Polygon(worldCorners, ColliderStyle(config, filled))>>,
              Returned(TRUE))

\* rotation is a number of eighths of a turn, as the camera's
drawBoxCollider(config, center, size, rotation, filled) ==
    LET halfSize == Vec(FixDiv(size.x, Fix(2)), FixDiv(size.y, Fix(2)))
        cos == FixCos(rotation)
        sin == FixSin(rotation)
        corners == <<Vec(0 - halfSize.x, 0 - halfSize.y),
                     Vec(halfSize.x, 0 - halfSize.y),
                     Vec(halfSize.x, halfSize.y),
                     Vec(0 - halfSize.x, halfSize.y)>>
        worldCorners == [i \in 1 .. 4 |->
                            VecAdd(center, Rotate(corners[i], cos, sin))]
    IN  Drawn(<<Polygon(worldCorners, ColliderStyle(config, filled))>>,
              Returned(TRUE))

\* The number of segments of a joint-limit arc
segments == 16

\* The angle of sample i of the arc (i = 0 .. segments): minAngle + angleStep * i
JointAngle(minAngle, maxAngle, i) ==
    minAngle + FixMul(FixDiv(maxAngle - minAngle, Fix(segments)), Fix(i))

\* The fill is the jointLimit colour with its alpha set to 0.3
drawJointLimits(config, center, minAngle, maxAngle, radius) ==
    LET points == <<center>> \o
            [j \in 1 .. segments + 1 |->
                VecAdd(center,
                       Vec(FixMul(FixCosOf(JointAngle(minAngle, maxAngle, j - 1)),
                                  radius),
                           FixMul(FixSinOf(JointAngle(minAngle, maxAngle, j - 1)),
                                  radius)))]
    IN  Drawn(<<Polygon(points,
                        ShapeStyle([color |-> ColorOf(config, "jointLimit"),
                                    alphaTenths |-> 3],
                                   ColorOf(config, "jointLimit"), Fix(1)))>>,
              Returned(TRUE))

(* One draw after another: an exception thrown by the first ends the call,  *)
(* and what it had emitted stays emitted.                                    *)
Then(first, second) ==
    IF first.outcome = Returned(TRUE)
    THEN Drawn(first.emitted \o second.emitted, second.outcome)
    ELSE first

\* drawVector: the arrow from start to start + vector, or + vector * scale
drawVector(debug, physics, start, vector, color, scale, zeroDirection) ==
    LET scaledVector == IF scale = Omitted THEN vector
                        ELSE VecScale(vector, scale[1])
    IN  drawArrow(debug, start, VecAdd(start, scaledVector), color,
                  Given(physics.arrowHeadSize), zeroDirection)

drawVelocity(debug, physics, position, velocity, zeroDirection) ==
    drawVector(debug, physics, position,
               VecScale(velocity, physics.velocityScale),
               ColorOf(physics, "velocity"), Omitted, zeroDirection)

drawAcceleration(debug, physics, position, acceleration, zeroDirection) ==
    drawVector(debug, physics, position,
               VecScale(acceleration, physics.accelerationScale),
               ColorOf(physics, "acceleration"), Omitted, zeroDirection)

drawForceVector(debug, physics, position, force, zeroDirection) ==
    drawVector(debug, physics, position,
               VecScale(force, physics.forceScale),
               ColorOf(physics, "force"), Omitted, zeroDirection)

\* drawContactImpulse hands the impulse to drawVector as it is
drawContactImpulse(debug, physics, point, impulse, zeroDirection) ==
    drawVector(debug, physics, point, impulse,
               ColorOf(physics, "contactImpulse"), Omitted, zeroDirection)

\* drawContactNormal: the arrow of the given length, its head of the default size
drawContactNormal(debug, physics, point, normal, length, zeroDirection) ==
    drawArrow(debug, point, VecAdd(point, VecScale(normal, length)),
              ColorOf(physics, "contactNormal"), Omitted, zeroDirection)

(* What drawContactPoints draws for one contact                             *)
(* [position, normal, normalImpulse, tangentImpulse].                       *)
ContactDrawn(debug, physics, contact, zeroDirection) ==
    LET point == Drawn(<<Circle(contact.position, physics.contactPointSize,
                                ShapeStyle(ColorOf(physics, "contact"), "none", 0))>>,
                       Returned(TRUE))
        nothing == Drawn(<<>>, Returned(TRUE))
        normal == IF physics.showContactNormals
                  THEN drawContactNormal(debug, physics, contact.position,
                                         contact.normal, FixFromRatio(1, 2),
                                         zeroDirection)
                  ELSE nothing
        impulse == IF physics.showContactImpulses
                   THEN drawVector(debug, physics, contact.position,
                            VecScale(contact.normal,
                                     FixMul(contact.normalImpulse,
                                            physics.impulseScale)),
                            ColorOf(physics, "contactImpulse"), Omitted,
                            zeroDirection)
                   ELSE nothing
        tangent == Vec(0 - contact.normal.y, contact.normal.x)
        friction == IF physics.showFrictionImpulses /\ contact.tangentImpulse # 0
                    THEN drawVector(debug, physics, contact.position,
                             VecScale(tangent,
                                      FixMul(contact.tangentImpulse,
                                             physics.impulseScale)),
                             ColorOf(physics, "frictionImpulse"), Omitted,
                             zeroDirection)
                    ELSE nothing
    IN  Then(Then(Then(point, normal), impulse), friction)

RECURSIVE ContactsDrawn(_, _, _, _)
ContactsDrawn(debug, physics, contacts, zeroDirection) ==
    IF contacts = <<>> THEN Drawn(<<>>, Returned(TRUE))
    ELSE Then(ContactDrawn(debug, physics, Head(contacts), zeroDirection),
              ContactsDrawn(debug, physics, Tail(contacts), zeroDirection))

drawContactPoints(debug, physics, contacts, zeroDirection) ==
    IF ~physics.showContacts THEN Drawn(<<>>, Returned(TRUE))
    ELSE ContactsDrawn(debug, physics, contacts, zeroDirection)

----------------------------------------------------------------------------
(* Inputs *)

\* Whole units up to MaxCoord, a half unit, and one unit of resolution
Coords == {c * SCALE : c \in (0 - MaxCoord) .. MaxCoord}
          \cup {0 - (SCALE \div 2), 0 - 1, 1, SCALE \div 2}

WorldPoints == {Vec(x, y) : x \in Coords, y \in Coords}

\* zoom 0, 1/2, 1 and 2
Zooms == {0, SCALE \div 2, SCALE, 2 * SCALE}

\* 0, 45, 90, 180, -45 and -90 degrees
Rotations == {0, 1, 2, 4, 0 - 1, 0 - 2}

CameraPositions == {Vec(0, 0), Vec(SCALE, 0 - (SCALE \div 2))}

Cameras == [position : CameraPositions, zoom : Zooms, rotation : Rotations]

DefaultCamera == [position |-> Vec(0, 0), zoom |-> SCALE, rotation |-> 0]

DefaultViewport == [x |-> 0, y |-> 0, width |-> 800, height |-> 600]

Viewports == {DefaultViewport,
              [x |-> 0, y |-> 0, width |-> 2, height |-> 2],
              [x |-> 1, y |-> 0, width |-> 1, height |-> 2]}

\* The corners and the centre of the viewport, and two points near the centre
ScreenPoints(vp) ==
    {Vec(Fix(vp.x), Fix(vp.y)),
     Vec(Fix(vp.x + vp.width), Fix(vp.y + vp.height)),
     ScreenCenter(vp),
     VecAdd(ScreenCenter(vp), Vec(SCALE, 0)),
     VecAdd(ScreenCenter(vp), Vec(0 - 1, SCALE \div 2))}

WholeCoords == {c * SCALE : c \in (0 - MaxCoord) .. MaxCoord}

RectSizes == {0, SCALE}

WorldRects == {Rect(x, y, w, h) : x \in WholeCoords, y \in WholeCoords,
                                  w \in RectSizes, h \in RectSizes}

\* Frame durations of 0, 1/2 and 1 second
Durations == {0, SCALE \div 2, SCALE}

FrameLists == UNION {[1 .. n -> Durations] : n \in 0 .. MaxFrames}

\* Playback at normal and at double speed
PlaybackSpeeds == {SCALE, 2 * SCALE}

Animations == [frames : FrameLists, loop : BOOLEAN, playbackSpeed : PlaybackSpeeds]

Times == (0 - MaxTime * SCALE) .. (MaxTime * SCALE)

SpritePositions == {Vec(0, 0)}

\* The cameras set while sprites are drawn
SpriteCameras == {DefaultCamera,
                  [position |-> Vec(SCALE, 0 - (SCALE \div 2)),
                   zoom |-> 2 * SCALE, rotation |-> 1]}

ZeroStatistics == [drawCalls |-> 0, triangles |-> 0, vertices |-> 0, textureBinds |-> 0]

\* Ends of arrows: whole units, and one unit of resolution
ArrowCoords == {0 - SCALE, 0, 1, SCALE}

ArrowPoints == {Vec(x, y) : x \in ArrowCoords, y \in ArrowCoords}

ArrowStarts == {Vec(0, 0), Vec(SCALE, 1)}

\* headSize left out, 1, 1/2 and 0
HeadSizes == {Omitted, Given(SCALE), Given(SCALE \div 2), Given(0)}

\* spacing -1, 0, 1/2, 3/4, 1 and 3
GridSpacings == {0 - SCALE, 0, SCALE \div 2, (3 * SCALE) \div 4, SCALE, 3 * SCALE}

MinorLine == LineStyle("grid", Fix(1))

MajorLine == LineStyle("gridMajor", Fix(2))

GridStyles ==
    {[lineStyle |-> MinorLine, majorLineStyle |-> m, majorLineInterval |-> n] :
         m \in {Omitted, Given(MajorLine)}, n \in {0, 1, 2, 3}}

(* The viewports of the debug renderer: x from -2.4 to 5.6; one whose left   *)
(* edge is a unit of resolution below 0; and one left of and above its       *)
(* origin corner (negative width and height).                                *)
GridViewports ==
    {[x |-> 0 - 24, y |-> 0 - 10, width |-> 80, height |-> 20, per |-> 10],
     [x |-> 0 - 1, y |-> 0 - 5, width |-> 9 * SCALE, height |-> 5 + SCALE,
      per |-> SCALE],
     [x |-> 2, y |-> 1, width |-> 0 - 1, height |-> 0 - 1, per |-> 1]}

DebugPatches ==
    {[showGrid |-> FALSE], [showGrid |-> TRUE], [axisLength |-> Fix(20)]}

CrosshairSizes == {0 - SCALE, 0, SCALE, 3}

PhysicsPatches ==
    {[forceScale |-> Fix(2), velocityScale |-> Fix(2),
      accelerationScale |-> Fix(3), impulseScale |-> Fix(2),
      arrowHeadSize |-> Fix(1)],
     [showContacts |-> TRUE, showContactNormals |-> TRUE,
      showContactImpulses |-> TRUE, showFrictionImpulses |-> TRUE],
     [showContacts |-> FALSE]}

PhysicsPoints == {Vec(0, 0), Vec(SCALE, 0 - 1)}

PhysicsVectors == {Vec(0, 0), Vec(SCALE, 0), Vec(0 - SCALE, 2), Vec(1, 2 * SCALE)}

Contact(position, normal, normalImpulse, tangentImpulse) ==
    [position |-> position, normal |-> normal,
     normalImpulse |-> normalImpulse, tangentImpulse |-> tangentImpulse]

ContactLists ==
    {<<>>,
     <<Contact(Vec(0, 0), Vec(SCALE, 0), SCALE, 0)>>,
     <<Contact(Vec(SCALE, 0 - 1), Vec(0, 0 - SCALE), 3, 2)>>,
     <<Contact(Vec(0, 0), Vec(0, SCALE), 0, 0)>>,
     <<Contact(Vec(0, 0), Vec(SCALE, 0), 2 * SCALE, SCALE),
       Contact(Vec(SCALE, SCALE), Vec(0, SCALE), SCALE, 0)>>}

BoxSizes == {Vec(2 * SCALE, SCALE), Vec(3, 1), Vec(0, 0), Vec(0 - SCALE, SCALE)}

ColliderRadii == {0 - SCALE, 0, SCALE}

VertexLists ==
    {<<>>, <<Vec(0, 0)>>, <<Vec(0, 0), Vec(SCALE, 0), Vec(0, SCALE)>>}

\* Joint limits in radians: 0, about -1.5, a little over 3, and 4
MinAngles == {0, 0 - (3 * SCALE) \div 2}

MaxAngles == {0, (3 * SCALE) \div 2, 3 * SCALE + 1, 4 * SCALE}

JointRadii == {0 - SCALE, 0, SCALE, 2 * SCALE}

\* Patches of top-level members, of some of the colours, and of both
ColorDebugPatches ==
    {[showGrid |-> FALSE],
     [axisLength |-> Fix(3)],
     [colors |-> [grid |-> "red"]],
     [showAxis |-> FALSE, colors |-> [axisX |-> "blue", axisY |-> "green"]]}

ColorPhysicsPatches ==
    {[showContacts |-> TRUE],
     [impulseScale |-> Fix(2)],
     [colors |-> [contact |-> "red"]],
     [showContacts |-> FALSE, colors |-> [shape |-> "blue", force |-> "green"]]}

\* A transform that moves, turns and stretches, and one that shrinks unevenly
Transforms ==
    {Transform2D(Vec(SCALE, 0), 1, Vec(2 * SCALE, SCALE)),
     Transform2D(Vec(0, 0 - 1), 0, Vec(SCALE \div 2, 3))}

RenderStates ==
    {DefaultRenderState, [blendMode |-> "add", opacityTenths |-> 5]}

\* `light_${n}`
LightId(n) == "light_" \o ToString(n)

LightConfigs ==
    {[intensity |-> SCALE, radius |-> 2 * SCALE, castShadows |-> FALSE],
     [intensity |-> SCALE \div 2, radius |-> SCALE, castShadows |-> TRUE]}

LightPatches == {[intensity |-> 3], [castShadows |-> TRUE]}

\* The ids addLight can have returned, one it has not, and one of another form
LightIds == {LightId(n) : n \in 0 .. MaxLights} \cup {"lamp"}

LayerIds == {"background", "world", "ui"}

Depths == {0 - 1, 0, 5}

(* Cameras with optional members of CameraConfig: one with bounds, and one  *)
(* that follows a target.                                                    *)
OptionalCameras ==
    {[position |-> Vec(SCALE, 0), zoom |-> 2 * SCALE, rotation |-> 1,
      bounds |-> Rect(0 - Fix(1), 0 - Fix(1), Fix(2), Fix(2))],
     [position |-> Vec(0, 0), zoom |-> SCALE, rotation |-> 0,
      followTarget |-> Vec(SCALE, SCALE), followSpeed |-> SCALE \div 2,
      deadZone |-> Rect(0, 0, Fix(1), Fix(1))]}

\* The inputs of the calls made while every operation is in play
RendererViewport == [x |-> 0, y |-> 0, width |-> 2, height |-> 2]

RendererSprite ==
    [frames |-> <<SCALE, SCALE>>, loop |-> FALSE, playbackSpeed |-> SCALE]

RendererContacts ==
    <<Contact(Vec(0, 0), Vec(SCALE, 0), 2 * SCALE, SCALE),
      Contact(Vec(SCALE, SCALE), Vec(0, SCALE), SCALE, 0)>>

RendererGridStyle ==
    [lineStyle |-> MinorLine, majorLineStyle |-> Given(MajorLine),
     majorLineInterval |-> 2]

\* One call of each primitive, and polygons of no, one and four vertices
Primitives ==
    {Line(Vec(0, 0), Vec(SCALE, 0), LineStyle("line", Fix(1))),
     Circle(Vec(0, 0), SCALE, ShapeStyle("fill", "none", 0)),
     Rectangle(Rect(0, 0, SCALE, SCALE), ShapeStyle("fill", "none", 0)),
     Ellipse(Rect(0, 0, SCALE, 2), ShapeStyle("none", "stroke", Fix(1))),
     Text("fps", Vec(0, 0), [color |-> "text"]),
     Texture("atlas", Vec(0, 0)),
     [primitive |-> "textureRegion", frame |-> 1, at |-> Vec(0, 0)],
     Polygon(<<>>, ShapeStyle("fill", "none", 0)),
     Polygon(<<Vec(0, 0)>>, ShapeStyle("fill", "none", 0)),
     Polygon(<<Vec(0, 0), Vec(SCALE, 0), Vec(SCALE, SCALE), Vec(0, SCALE)>>,
             ShapeStyle("fill", "none", 0))}

\* DEFAULT_DEBUG_CONFIG, with the members and colours the model draws with
DEFAULT_DEBUG_CONFIG ==
    [showGrid |-> TRUE, showAxis |-> TRUE, gridSpacing |-> Fix(1),
     axisLength |-> Fix(2),
     colors |-> [grid |-> "grid", axisX |-> "axisX", axisY |-> "axisY"]]

\* DEFAULT_PHYSICS_DEBUG_CONFIG, with the members and colours the model draws with
DEFAULT_PHYSICS_DEBUG_CONFIG ==
    [showContacts |-> FALSE, showContactNormals |-> FALSE,
     showContactImpulses |-> FALSE, showFrictionImpulses |-> FALSE,
     forceScale |-> FixFromRatio(1, 10), velocityScale |-> FixFromRatio(1, 2),
     accelerationScale |-> FixFromRatio(1, 10), impulseScale |-> Fix(1),
     contactPointSize |-> FixFromRatio(1, 10),
     arrowHeadSize |-> FixFromRatio(1, 10),
     colors |-> [shape |-> "shape", jointLimit |-> "jointLimit",
                 contact |-> "contact", contactNormal |-> "contactNormal",
                 contactImpulse |-> "contactImpulse",
                 frictionImpulse |-> "frictionImpulse", force |-> "force",
                 velocity |-> "velocity", acceleration |-> "acceleration"]]

----------------------------------------------------------------------------
(* State and operations *)

(* The renderer is synchronous and single-threaded: a call runs to its end  *)
(* and hands its result to the caller before the next call starts.  `last`  *)
(* is the call that has just ended, with what it returned, until the caller *)
(* has taken the result.  Every operation starts from Idle; Next states    *)
(* that guard once more ahead of the choice of the operation's arguments.   *)
NoCall == [op |-> "none"]

Idle == last = NoCall

Init ==
    /\ camera = DefaultCamera
    /\ viewport = DefaultViewport
    /\ statistics = ZeroStatistics
    /\ debugConfig = DEFAULT_DEBUG_CONFIG
    /\ physicsConfig = DEFAULT_PHYSICS_DEBUG_CONFIG
    /\ transformStack = <<>>
    /\ currentTransform = Identity
    /\ pushed = <<>>
    /\ renderStateStack = <<>>
    /\ currentRenderState = DefaultRenderState
    /\ lights = EmptyMap
    /\ lightIdCounter = 0
    /\ issued = {}
    /\ layers = <<>>
    /\ last = NoCall

\* The call that has just ended did end: it is not caught in a loop
Returning == ~("outcome" \in DOMAIN last /\ last.outcome = [status |-> "diverges"])

TakeResult ==
    /\ ~Idle
    /\ Returning
    /\ last' = NoCall
    /\ UNCHANGED <<stacks, scene, camera, viewport, statistics, debugConfig, physicsConfig>>

\* setCamera spreading the new configuration over the camera it has
SetCamera_merged(config) ==
    /\ Idle
    /\ camera' = [k \in DOMAIN camera \cup DOMAIN config |->
                     IF k \in DOMAIN config THEN config[k] ELSE camera[k]]
    /\ last' = [op |-> "setCamera", in |-> config, replaced |-> camera,
                outcome |-> Returned(TRUE)]
    /\ UNCHANGED <<stacks, scene, viewport, statistics, debugConfig, physicsConfig>>

\* `replaced` is the camera the renderer had when the call came
SetCamera(config) ==
    /\ Idle
    /\ camera' = config
    /\ last' = [op |-> "setCamera", in |-> config, replaced |-> camera,
                outcome |-> Returned(TRUE)]
    /\ UNCHANGED <<stacks, scene, viewport, statistics, debugConfig, physicsConfig>>

SetViewport(vp) ==
    /\ Idle
    /\ viewport' = vp
    /\ last' = [op |-> "setViewport", in |-> vp]
    /\ UNCHANGED <<stacks, scene, camera, statistics, debugConfig, physicsConfig>>

WorldToScreen(worldPos) ==
    /\ Idle
    /\ last' = [op |-> "worldToScreen", in |-> worldPos,
                out |-> worldToScreen(camera, viewport, worldPos)]
    /\ UNCHANGED <<stacks, scene, camera, viewport, statistics, debugConfig, physicsConfig>>

ScreenToWorld(screenPos) ==
    /\ Idle
    /\ last' = [op |-> "screenToWorld", in |-> screenPos,
                outcome |-> screenToWorldOutcome(camera, viewport, screenPos)]
    /\ UNCHANGED <<stacks, scene, camera, viewport, statistics, debugConfig, physicsConfig>>

\* A caller's screenToWorld(worldToScreen(p))
RoundTrip(worldPos) ==
    /\ Idle
    /\ last' = [op |-> "roundTrip", in |-> worldPos,
                mid |-> worldToScreen(camera, viewport, worldPos),
                outcome |-> screenToWorldOutcome(camera, viewport,
                                worldToScreen(camera, viewport, worldPos))]
    /\ UNCHANGED <<stacks, scene, camera, viewport, statistics, debugConfig, physicsConfig>>

IsVisible(bounds) ==
    /\ Idle
    /\ last' = [op |-> "isVisible", in |-> bounds,
                outcome |-> isVisibleOutcome(camera, viewport, bounds)]
    /\ UNCHANGED <<stacks, scene, camera, viewport, statistics, debugConfig, physicsConfig>>

BeginFrame ==
    /\ Idle
    /\ statistics' = ZeroStatistics
    /\ last' = [op |-> "beginFrame"]
    /\ UNCHANGED <<stacks, scene, camera, viewport, debugConfig, physicsConfig>>

ResetStatistics ==
    /\ Idle
    /\ statistics' = ZeroStatistics
    /\ last' = [op |-> "resetStatistics"]
    /\ UNCHANGED <<stacks, scene, camera, viewport, debugConfig, physicsConfig>>

(* drawLine, drawCircle, drawRect, drawPolygon, drawEllipse, drawText,        *)
(* drawTexture and drawTextureRegion called from outside: the call is        *)
(* counted and handed to the backend.                                        *)
DrawPrimitive(call) ==
    /\ Idle
    /\ statistics.drawCalls < MaxDraws
    /\ statistics' = Counted(statistics, <<call>>)
    /\ last' = [op |-> "drawPrimitive", emitted |-> <<call>>,
                outcome |-> Returned(TRUE)]
    /\ UNCHANGED <<stacks, scene, camera, viewport, debugConfig, physicsConfig>>

\* A subclass's call of the protected getCurrentAnimationFrame
Resolve(animation, currentTime) ==
    /\ Idle
    /\ last' = [op |-> "resolve", animation |-> animation, time |-> currentTime,
                outcome |-> getCurrentAnimationFrame(Self, animation, currentTime),
                emitted |-> <<>>]
    /\ UNCHANGED <<stacks, scene, camera, viewport, statistics, debugConfig, physicsConfig>>

(* drawSprite: a frame, when there is one, goes through drawSpriteFromAtlas   *)
(* to drawTextureRegion, which counts a draw call and a texture bind and      *)
(* hands the region to the backend.                                          *)
DrawSprite(animation, position, currentTime) ==
    /\ Idle
    /\ statistics.drawCalls < MaxDraws
    /\ LET o == getCurrentAnimationFrame(Self, animation, currentTime)
           drawn == o.status = "ok" /\ o.value # NoFrame
       IN  /\ statistics' =
                 IF drawn
                 THEN [statistics EXCEPT !.drawCalls = @ + 1, !.textureBinds = @ + 1]
                 ELSE statistics
           /\ last' = [op |-> "drawSprite", animation |-> animation,
                       time |-> currentTime, outcome |-> o,
                       emitted |-> IF drawn
                                   THEN <<[primitive |-> "textureRegion",
                                           frame |-> o.value, at |-> position]>>
                                   ELSE <<>>]
    /\ UNCHANGED <<stacks, scene, camera, viewport, debugConfig, physicsConfig>>

SetDebugConfig(patch) ==
    /\ Idle
    /\ debugConfig' = MergeConfig(debugConfig, patch)
    /\ last' = [op |-> "setDebugConfig", in |-> patch]
    /\ UNCHANGED <<stacks, scene, camera, viewport, statistics, physicsConfig>>

DrawArrow(start, end, color, headSize, zeroDirection) ==
    /\ Idle
    /\ statistics.drawCalls < MaxDraws
    /\ LET d == drawArrow(debugConfig, start, end, color, headSize, zeroDirection)
       IN  /\ statistics' = Counted(statistics, d.emitted)
           /\ last' = [op |-> "drawArrow", start |-> start, end |-> end,
                       color |-> color, headSize |-> headSize,
                       emitted |-> d.emitted, outcome |-> d.outcome]
    /\ UNCHANGED <<stacks, scene, camera, viewport, debugConfig, physicsConfig>>

DrawGrid(spacing, style) ==
    /\ Idle
    /\ statistics.drawCalls < MaxDraws
    /\ LET d == drawGrid(debugConfig, BaseRenderer_getViewBounds(viewport),
                         spacing, style)
       IN  /\ statistics' = Counted(statistics, d.emitted)
           /\ last' = [op |-> "drawGrid", spacing |-> spacing, style |-> style,
                       bounds |-> BaseRenderer_getViewBounds(viewport),
                       emitted |-> d.emitted, outcome |-> d.outcome]
    /\ UNCHANGED <<stacks, scene, camera, viewport, debugConfig, physicsConfig>>

\* drawCrosshair moving the origin to the position and leaving it there
DrawCrosshair_translating(position, size, color) ==
    /\ Idle
    /\ statistics.drawCalls < MaxDraws
    /\ LET d == drawCrosshair(position, size, color)
       IN  /\ statistics' = Counted(statistics, d.emitted)
           /\ last' = [op |-> "drawCrosshair", position |-> position,
                       size |-> size, color |-> color,
                       emitted |-> d.emitted, outcome |-> d.outcome]
    /\ transformStack' = Append(transformStack, currentTransform)
    /\ currentTransform' =
           Multiply(currentTransform, Transform2D(position, 0, Vec(SCALE, SCALE)))
    /\ UNCHANGED <<pushed, renderStateStack, currentRenderState, scene,
                   camera, viewport, debugConfig, physicsConfig>>

DrawCrosshair(position, size, color) ==
    /\ Idle
    /\ statistics.drawCalls < MaxDraws
    /\ LET d == drawCrosshair(position, size, color)
       IN  /\ statistics' = Counted(statistics, d.emitted)
           /\ last' = [op |-> "drawCrosshair", position |-> position,
                       size |-> size, color |-> color,
                       emitted |-> d.emitted, outcome |-> d.outcome]
    /\ UNCHANGED <<stacks, scene, camera, viewport, debugConfig, physicsConfig>>

NextDebug ==
    \/ TakeResult
    \/ BeginFrame
    \/ Idle /\ \E patch \in DebugPatches : SetDebugConfig(patch)
    \/ Idle /\ \E vp \in GridViewports : SetViewport(vp)
    \/ Idle /\ \E start \in ArrowStarts, end \in ArrowPoints,
                  headSize \in HeadSizes, z \in ZeroDirections :
                   DrawArrow(start, end, "arrow", headSize, z)
    \/ Idle /\ \E spacing \in GridSpacings, style \in GridStyles :
                   DrawGrid(spacing, style)
    \/ Idle /\ \E size \in CrosshairSizes :
                   DrawCrosshair(Vec(SCALE, 0 - 1), size, "crosshair")

SpecDebug == Init /\ [][NextDebug]_vars

SetPhysicsDebugConfig(patch) ==
    /\ Idle
    /\ physicsConfig' = MergeConfig(physicsConfig, patch)
    /\ last' = [op |-> "setPhysicsDebugConfig", in |-> patch]
    /\ UNCHANGED <<stacks, scene, camera, viewport, statistics, debugConfig>>

(* drawVelocity, drawAcceleration, drawContactImpulse and a subclass's call *)
(* of the protected drawForceVector: `kind` says which.                     *)
VectorDrawn(kind, point, vector, zeroDirection) ==
    CASE kind = "drawVelocity" ->
             drawVelocity(debugConfig, physicsConfig, point, vector, zeroDirection)
      [] kind = "drawAcceleration" ->
             drawAcceleration(debugConfig, physicsConfig, point, vector, zeroDirection)
      [] kind = "drawForceVector" ->
             drawForceVector(debugConfig, physicsConfig, point, vector, zeroDirection)
      [] kind = "drawContactImpulse" ->
             drawContactImpulse(debugConfig, physicsConfig, point, vector, zeroDirection)

DrawVectorOf(kind, point, vector, zeroDirection) ==
    /\ Idle
    /\ statistics.drawCalls < MaxDraws
    /\ LET d == VectorDrawn(kind, point, vector, zeroDirection)
       IN  /\ statistics' = Counted(statistics, d.emitted)
           /\ last' = [op |-> kind, point |-> point, vector |-> vector,
                       emitted |-> d.emitted, outcome |-> d.outcome]
    /\ UNCHANGED <<stacks, scene, camera, viewport, debugConfig, physicsConfig>>

DrawVelocity(position, velocity, zeroDirection) ==
    DrawVectorOf("drawVelocity", position, velocity, zeroDirection)

DrawAcceleration(position, acceleration, zeroDirection) ==
    DrawVectorOf("drawAcceleration", position, acceleration, zeroDirection)

DrawForceVector(position, force, zeroDirection) ==
    DrawVectorOf("drawForceVector", position, force, zeroDirection)

DrawContactImpulse(point, impulse, zeroDirection) ==
    DrawVectorOf("drawContactImpulse", point, impulse, zeroDirection)

DrawContactPoints(contacts, zeroDirection) ==
    /\ Idle
    /\ statistics.drawCalls < MaxDraws
    /\ LET d == drawContactPoints(debugConfig, physicsConfig, contacts,
                                  zeroDirection)
       IN  /\ statistics' = Counted(statistics, d.emitted)
           /\ last' = [op |-> "drawContactPoints", contacts |-> contacts,
                       emitted |-> d.emitted, outcome |-> d.outcome]
    /\ UNCHANGED <<stacks, scene, camera, viewport, debugConfig, physicsConfig>>

DrawCircleCollider(center, radius, filled) ==
    /\ Idle
    /\ statistics.drawCalls < MaxDraws
    /\ LET d == drawCircleCollider(physicsConfig, center, radius, filled)
       IN  /\ statistics' = Counted(statistics, d.emitted)
           /\ last' = [op |-> "drawCircleCollider", center |-> center,
                       radius |-> radius, filled |-> filled,
                       emitted |-> d.emitted, outcome |-> d.outcome]
    /\ UNCHANGED <<stacks, scene, camera, viewport, debugConfig, physicsConfig>>

DrawBoxCollider(center, size, rotation, filled) ==
    /\ Idle
    /\ statistics.drawCalls < MaxDraws
    /\ LET d == drawBoxCollider(physicsConfig, center, size, rotation, filled)
       IN  /\ statistics' = Counted(statistics, d.emitted)
           /\ last' = [op |-> "drawBoxCollider", center |-> center,
                       size |-> size, rotation |-> rotation, filled |-> filled,
                       emitted |-> d.emitted, outcome |-> d.outcome]
    /\ UNCHANGED <<stacks, scene, camera, viewport, debugConfig, physicsConfig>>

DrawPolygonCollider(vertices, filled) ==
    /\ Idle
    /\ statistics.drawCalls < MaxDraws
    /\ LET d == drawPolygonCollider(physicsConfig, vertices, filled)
       IN  /\ statistics' = Counted(statistics, d.emitted)
           /\ last' = [op |-> "drawPolygonCollider", vertices |-> vertices,
                       filled |-> filled,
                       emitted |-> d.emitted, outcome |-> d.outcome]
    /\ UNCHANGED <<stacks, scene, camera, viewport, debugConfig, physicsConfig>>

\* `angles` keeps the angle the loop computed for each sample
DrawJointLimits(center, minAngle, maxAngle, radius) ==
    /\ Idle
    /\ statistics.drawCalls < MaxDraws
    /\ LET d == drawJointLimits(physicsConfig, center, minAngle, maxAngle, radius)
       IN  /\ statistics' = Counted(statistics, d.emitted)
           /\ last' = [op |-> "drawJointLimits", center |-> center,
                       minAngle |-> minAngle, maxAngle |-> maxAngle,
                       radius |-> radius,
                       angles |-> [j \in 1 .. segments + 1 |->
                                      JointAngle(minAngle, maxAngle, j - 1)],
                       emitted |-> d.emitted, outcome |-> d.outcome]
    /\ UNCHANGED <<stacks, scene, camera, viewport, debugConfig, physicsConfig>>

NextPhysics ==
    \/ TakeResult
    \/ BeginFrame
    \/ Idle /\ \E patch \in PhysicsPatches : SetPhysicsDebugConfig(patch)
    \/ Idle /\ \E p \in PhysicsPoints, v \in PhysicsVectors, z \in ZeroDirections :
                   DrawVelocity(p, v, z)
    \/ Idle /\ \E p \in PhysicsPoints, v \in PhysicsVectors, z \in ZeroDirections :
                   DrawAcceleration(p, v, z)
    \/ Idle /\ \E p \in PhysicsPoints, v \in PhysicsVectors, z \in ZeroDirections :
                   DrawForceVector(p, v, z)
    \/ Idle /\ \E p \in PhysicsPoints, v \in PhysicsVectors, z \in ZeroDirections :
                   DrawContactImpulse(p, v, z)
    \/ Idle /\ \E contacts \in ContactLists, z \in ZeroDirections :
                   DrawContactPoints(contacts, z)
    \/ Idle /\ \E c \in PhysicsPoints, r \in ColliderRadii, filled \in BOOLEAN :
                   DrawCircleCollider(c, r, filled)
    \/ Idle /\ \E c \in PhysicsPoints, size \in BoxSizes, k \in Rotations,
                  filled \in BOOLEAN :
                   DrawBoxCollider(c, size, k, filled)
    \/ Idle /\ \E vertices \in VertexLists, filled \in BOOLEAN :
                   DrawPolygonCollider(vertices, filled)
    \/ Idle /\ \E c \in PhysicsPoints, minAngle \in MinAngles,
                  maxAngle \in MaxAngles, radius \in JointRadii :
                   DrawJointLimits(c, minAngle, maxAngle, radius)
    \/ Idle /\ \E size \in CrosshairSizes :
                   DrawCrosshair(Vec(SCALE, 0 - 1), size, "crosshair")

SpecPhysics == Init /\ [][NextPhysics]_vars

\* popTransform restoring nothing: the stack shrinks, the transform stays
PopTransform_keepCurrent ==
    /\ Idle
    /\ transformStack' = IF transformStack = <<>> THEN <<>>
                         ELSE SubSeq(transformStack, 1, Len(transformStack) - 1)
    /\ pushed' = IF pushed = <<>> THEN <<>>
                 ELSE SubSeq(pushed, 1, Len(pushed) - 1)
    /\ currentTransform' = currentTransform
    /\ last' = [op |-> "popTransform", depth |-> Len(transformStack),
                before |-> currentTransform]
    /\ UNCHANGED <<camera, viewport, statistics, debugConfig, physicsConfig,
                   renderStateStack, currentRenderState, scene>>

(* popTransform: Array.pop gives undefined on an empty stack, and then       *)
(* nothing changes; a Transform2D is an object and so always truthy.         *)
PopTransform ==
    /\ Idle
    /\ IF transformStack = <<>>
       THEN UNCHANGED <<transformStack, currentTransform, pushed>>
       ELSE /\ currentTransform' = transformStack[Len(transformStack)]
            /\ transformStack' = SubSeq(transformStack, 1, Len(transformStack) - 1)
            /\ pushed' = SubSeq(pushed, 1, Len(pushed) - 1)
    /\ last' = [op |-> "popTransform", depth |-> Len(transformStack),
                before |-> currentTransform]
    /\ UNCHANGED <<camera, viewport, statistics, debugConfig, physicsConfig,
                   renderStateStack, currentRenderState, scene>>

PushTransform(transform) ==
    /\ Idle
    /\ Len(transformStack) < MaxDepth
    /\ transformStack' = Append(transformStack, currentTransform)
    /\ currentTransform' = Multiply(currentTransform, transform)
    /\ pushed' = Append(pushed, transform)
    /\ last' = [op |-> "pushTransform", in |-> transform,
                before |-> currentTransform]
    /\ UNCHANGED <<camera, viewport, statistics, debugConfig, physicsConfig,
                   renderStateStack, currentRenderState, scene>>

SetRenderState(state) ==
    /\ Idle
    /\ currentRenderState' = state
    /\ last' = [op |-> "setRenderState", in |-> state]
    /\ UNCHANGED <<camera, viewport, statistics, debugConfig, physicsConfig,
                   transformStack, currentTransform, pushed, renderStateStack,
                   scene>>

PushRenderState ==
    /\ Idle
    /\ Len(renderStateStack) < MaxDepth
    /\ renderStateStack' = Append(renderStateStack, currentRenderState)
    /\ last' = [op |-> "pushRenderState"]
    /\ UNCHANGED <<camera, viewport, statistics, debugConfig, physicsConfig,
                   transformStack, currentTransform, pushed, currentRenderState,
                   scene>>

\* popRenderState: the popped state, when there is one, goes to setRenderState
PopRenderState ==
    /\ Idle
    /\ IF renderStateStack = <<>>
       THEN UNCHANGED <<renderStateStack, currentRenderState>>
       ELSE /\ currentRenderState' = renderStateStack[Len(renderStateStack)]
            /\ renderStateStack' =
                   SubSeq(renderStateStack, 1, Len(renderStateStack) - 1)
    /\ last' = [op |-> "popRenderState"]
    /\ UNCHANGED <<camera, viewport, statistics, debugConfig, physicsConfig,
                   transformStack, currentTransform, pushed, scene>>

NextStack ==
    \/ TakeResult
    \/ PopTransform
    \/ Idle /\ \E transform \in Transforms : PushTransform(transform)
    \/ Idle /\ \E state \in RenderStates : SetRenderState(state)
    \/ PushRenderState
    \/ PopRenderState

SpecStack == Init /\ [][NextStack]_vars

\* Map.set: the value of key is replaced, every other entry stays
MapSet(map, key, value) ==
    [k \in DOMAIN map \cup {key} |-> IF k = key THEN value ELSE map[k]]

\* Map.delete
MapDelete(map, key) == [k \in DOMAIN map \ {key} |-> map[k]]

\* addLight naming the light after the number of lights registered
AddLight_countAsId(light) ==
    /\ Idle
    /\ lightIdCounter < MaxLights
    /\ LET id == LightId(Cardinality(DOMAIN lights))
       IN  /\ lightIdCounter' = lightIdCounter + 1
           /\ lights' = MapSet(lights, id, light)
           /\ issued' = issued \cup {id}
           /\ last' = [op |-> "addLight", in |-> light, value |-> id,
                       notified |-> <<"onLightAdded", id, light>>]
    /\ UNCHANGED <<camera, viewport, statistics, debugConfig, physicsConfig,
                   stacks, layers>>

(* The operations on lights and layers tell the backend through a hook       *)
(* (onLightAdded, onLayerRemoved, ...); `notified` is the hook called, with  *)
(* its arguments, or <<>> when none was.                                     *)
AddLight(light) ==
    /\ Idle
    /\ lightIdCounter < MaxLights
    /\ LET id == LightId(lightIdCounter)
       IN  /\ lightIdCounter' = lightIdCounter + 1
           /\ lights' = MapSet(lights, id, light)
           /\ issued' = issued \cup {id}
           /\ last' = [op |-> "addLight", in |-> light, value |-> id,
                       notified |-> <<"onLightAdded", id, light>>]
    /\ UNCHANGED <<camera, viewport, statistics, debugConfig, physicsConfig,
                   stacks, layers>>

RemoveLight(lightId) ==
    /\ Idle
    /\ lights' = IF lightId \in DOMAIN lights THEN MapDelete(lights, lightId)
                 ELSE lights
    /\ last' = [op |-> "removeLight", id |-> lightId,
                notified |-> IF lightId \in DOMAIN lights
                             THEN <<"onLightRemoved", lightId>> ELSE <<>>]
    /\ UNCHANGED <<camera, viewport, statistics, debugConfig, physicsConfig,
                   stacks, lightIdCounter, issued, layers>>

UpdateLight(lightId, config) ==
    /\ Idle
    /\ lights' = IF lightId \in DOMAIN lights
                 THEN MapSet(lights, lightId, Spread(lights[lightId], config))
                 ELSE lights
    /\ last' = [op |-> "updateLight", id |-> lightId, in |-> config,
                notified |-> IF lightId \in DOMAIN lights
                             THEN <<"onLightUpdated", lightId,
                                    Spread(lights[lightId], config)>>
                             ELSE <<>>]
    /\ UNCHANGED <<camera, viewport, statistics, debugConfig, physicsConfig,
                   stacks, lightIdCounter, issued, layers>>

\* The place of the layer with this id among the Map's values, 0 when none
IndexOfLayer(map, id) ==
    IF \E i \in DOMAIN map : map[i].id = id
    THEN CHOOSE i \in DOMAIN map : map[i].id = id
    ELSE 0

\* Array.prototype.sort with (a, b) => a.depth - b.depth is stable: a layer
\* goes behind those already placed whose depth is not greater
InsertByDepth(sorted, layer) ==
    LET before == SelectSeq(sorted, LAMBDA l : l.depth <= layer.depth)
        after == SelectSeq(sorted, LAMBDA l : l.depth > layer.depth)
    IN  before \o <<layer>> \o after

RECURSIVE SortByDepth(_)
SortByDepth(values) ==
    IF values = <<>> THEN <<>>
    ELSE InsertByDepth(SortByDepth(SubSeq(values, 1, Len(values) - 1)),
                       values[Len(values)])

\* getLayers handing out the Map's values as they are
getLayers_unsorted(map) == map

\* Array.from(this.layers.values()).sort(...)
getLayers(map) == SortByDepth(map)

\* Map.set keeps the place of a key it already has
CreateLayer(id, depth) ==
    /\ Idle
    /\ LET layer == [id |-> id, depth |-> depth, visible |-> TRUE]
           i == IndexOfLayer(layers, id)
       IN  /\ layers' = IF i = 0 THEN Append(layers, layer)
                        ELSE [layers EXCEPT ![i] = layer]
           /\ last' = [op |-> "createLayer", id |-> id, depth |-> depth,
                       value |-> layer, notified |-> <<"onLayerCreated", layer>>]
    /\ UNCHANGED <<camera, viewport, statistics, debugConfig, physicsConfig,
                   stacks, lights, lightIdCounter, issued>>

RemoveLayer(id) ==
    /\ Idle
    /\ layers' = SelectSeq(layers, LAMBDA l : l.id # id)
    /\ last' = [op |-> "removeLayer", id |-> id,
                notified |-> IF IndexOfLayer(layers, id) # 0
                             THEN <<"onLayerRemoved", id>> ELSE <<>>]
    /\ UNCHANGED <<camera, viewport, statistics, debugConfig, physicsConfig,
                   stacks, lights, lightIdCounter, issued>>

SetLayerVisible(id, visible) ==
    /\ Idle
    /\ LET i == IndexOfLayer(layers, id)
       IN  /\ layers' = IF i = 0 THEN layers
                        ELSE [layers EXCEPT ![i].visible = visible]
           /\ last' = [op |-> "setLayerVisible", id |-> id, visible |-> visible,
                       notified |-> IF i # 0
                                    THEN <<"onLayerVisibilityChanged", id, visible>>
                                    ELSE <<>>]
    /\ UNCHANGED <<camera, viewport, statistics, debugConfig, physicsConfig,
                   stacks, lights, lightIdCounter, issued>>

SetLayerDepth(id, depth) ==
    /\ Idle
    /\ LET i == IndexOfLayer(layers, id)
       IN  /\ layers' = IF i = 0 THEN layers
                        ELSE [layers EXCEPT ![i].depth = depth]
           /\ last' = [op |-> "setLayerDepth", id |-> id, depth |-> depth,
                       notified |-> IF i # 0
                                    THEN <<"onLayerDepthChanged", id, depth>>
                                    ELSE <<>>]
    /\ UNCHANGED <<camera, viewport, statistics, debugConfig, physicsConfig,
                   stacks, lights, lightIdCounter, issued>>

GetLayers ==
    /\ Idle
    /\ last' = [op |-> "getLayers", value |-> getLayers(layers)]
    /\ UNCHANGED <<camera, viewport, statistics, debugConfig, physicsConfig,
                   stacks, scene>>

NextLights ==
    \/ TakeResult
    \/ Idle /\ \E light \in LightConfigs : AddLight(light)
    \/ Idle /\ \E id \in LightIds : RemoveLight(id)
    \/ Idle /\ \E id \in LightIds, config \in LightPatches : UpdateLight(id, config)

SpecLights == Init /\ [][NextLights]_vars

NextLayers ==
    \/ TakeResult
    \/ GetLayers
    \/ Idle /\ \E id \in LayerIds, depth \in Depths : CreateLayer(id, depth)
    \/ Idle /\ \E id \in LayerIds : RemoveLayer(id)
    \/ Idle /\ \E id \in LayerIds, visible \in BOOLEAN : SetLayerVisible(id, visible)
    \/ Idle /\ \E id \in LayerIds, depth \in Depths : SetLayerDepth(id, depth)

SpecLayers == Init /\ [][NextLayers]_vars

NextConfig ==
    \/ TakeResult
    \/ Idle /\ \E patch \in ColorDebugPatches : SetDebugConfig(patch)
    \/ Idle /\ \E patch \in ColorPhysicsPatches : SetPhysicsDebugConfig(patch)

SpecConfig == Init /\ [][NextConfig]_vars

NextSprite ==
    \/ TakeResult
    \/ BeginFrame
    \/ ResetStatistics
    \/ Idle /\ \E c \in SpriteCameras : SetCamera(c)
    \/ Idle /\ \E a \in Animations, t \in Times : Resolve(a, t)
    \/ Idle /\ \E a \in Animations, q \in SpritePositions, t \in Times :
                   DrawSprite(a, q, t)

SpecSprite == Init /\ [][NextSprite]_vars

NextCamera ==
    \/ TakeResult
    \/ Idle /\ \E c \in Cameras : SetCamera(c)
    \/ Idle /\ \E vp \in Viewports : SetViewport(vp)
    \/ Idle /\ \E p \in WorldPoints : WorldToScreen(p)
    \/ Idle /\ \E q \in ScreenPoints(viewport) : ScreenToWorld(q)
    \/ Idle /\ \E p \in WorldPoints : RoundTrip(p)
    \/ Idle /\ \E r \in WorldRects : IsVisible(r)

SpecCamera == Init /\ [][NextCamera]_vars

\* Every kind of operation of the renderers, each with one input
NextRenderer ==
    \/ TakeResult
    \/ BeginFrame
    \/ Idle /\ \E c \in OptionalCameras : SetCamera(c)
    \/ Idle /\ SetViewport(RendererViewport)
    \/ Idle /\ SetDebugConfig([showGrid |-> FALSE])
    \/ Idle /\ SetPhysicsDebugConfig([showContacts |-> TRUE,
                                         showContactNormals |-> TRUE])
    \/ Idle /\ \E transform \in {Transform2D(Vec(SCALE, 0), 1, Vec(2 * SCALE, SCALE))} :
                   PushTransform(transform)
    \/ PopTransform
    \/ PushRenderState
    \/ PopRenderState
    \/ Idle /\ WorldToScreen(Vec(SCALE, 0))
    \/ Idle /\ ScreenToWorld(ScreenCenter(viewport))
    \/ Idle /\ IsVisible(Rect(0, 0, SCALE, SCALE))
    \/ Idle /\ DrawSprite(RendererSprite, Vec(0, 0), SCALE)
    \/ Idle /\ DrawArrow(Vec(0, 0), Vec(SCALE, 0), "arrow", Omitted, "zeroVector")
    \/ Idle /\ DrawGrid(300 * SCALE, RendererGridStyle)
    \/ Idle /\ DrawCrosshair(Vec(SCALE, 0 - 1), SCALE, "crosshair")
    \/ Idle /\ DrawJointLimits(Vec(0, 0), 0, (3 * SCALE) \div 2, SCALE)
    \/ Idle /\ DrawContactPoints(RendererContacts, "zeroVector")
    \/ Idle /\ DrawBoxCollider(Vec(0, 0), Vec(2 * SCALE, SCALE), 1, TRUE)

SpecRenderer == Init /\ [][NextRenderer]_vars

\* The operations that count, and those that clear the counts
NextStatistics ==
    \/ TakeResult
    \/ BeginFrame
    \/ ResetStatistics
    \/ Idle /\ SetViewport(RendererViewport)
    \/ Idle /\ SetPhysicsDebugConfig([showContacts |-> TRUE,
                                         showContactNormals |-> TRUE])
    \/ Idle /\ \E call \in Primitives : DrawPrimitive(call)
    \/ Idle /\ \E t \in {0 - 1, SCALE} : DrawSprite(RendererSprite, Vec(0, 0), t)
    \/ Idle /\ \E end \in {Vec(SCALE, 0), Vec(0, 0)}, z \in ZeroDirections :
                   DrawArrow(Vec(0, 0), end, "arrow", Omitted, z)
    \/ Idle /\ \E spacing \in {100 * SCALE, 300 * SCALE} :
                   DrawGrid(spacing, RendererGridStyle)
    \/ Idle /\ DrawCrosshair(Vec(SCALE, 0 - 1), SCALE, "crosshair")
    \/ Idle /\ DrawJointLimits(Vec(0, 0), 0, (3 * SCALE) \div 2, SCALE)
    \/ Idle /\ \E contacts \in ContactLists :
                   DrawContactPoints(contacts, "zeroVector")
    \/ Idle /\ \E filled \in BOOLEAN :
                   DrawBoxCollider(Vec(0, 0), Vec(2 * SCALE, SCALE), 1, filled)
    \/ Idle /\ \E vertices \in VertexLists, filled \in BOOLEAN :
                   DrawPolygonCollider(vertices, filled)

SpecStatistics == Init /\ [][NextStatistics]_vars
----------------------------------------------------------------------------
(* Camera transform: properties *)

Abs(n) == IF n < 0 THEN 0 - n ELSE n

\* (p - camera.position) * zoom is computed without rounding
ExactZoom(cam, p) ==
    /\ ((p.x - cam.position.x) * cam.zoom) % SCALE = 0
    /\ ((p.y - cam.position.y) * cam.zoom) % SCALE = 0

\* cos^2 + sin^2 of the rounded trig values, in units of 1 / SCALE^2
TrigNorm(k) == FixCos(k) * FixCos(k) + FixSin(k) * FixSin(k)

(* The rounding tolerance of one coordinate of a round trip.  With d the     *)
(* distance of the point from the camera and err the error, both in units    *)
(* of 1/SCALE:                                                               *)
(*   err <= d * |cos^2 + sin^2 - 1|          drift of the rounded trig values*)
(*          + (cos^2 + sin^2) / (2 zoom)     rounding of the zoom product    *)
(*          + (|cos| + |sin| + 1) / zoom     rounding of the four products   *)
(*          + 1/2                            rounding of the zoom quotient   *)
(* multiplied through by 2 * SCALE^2 * zoom.                                 *)
WithinTolerance(cam, d, err) ==
    2 * SCALE * SCALE * cam.zoom * Abs(err)
      <= 2 * cam.zoom * Abs(d) * Abs(TrigNorm(cam.rotation) - SCALE * SCALE)
         + SCALE * TrigNorm(cam.rotation)
         + 2 * SCALE * SCALE
             * (Abs(FixCos(cam.rotation)) + Abs(FixSin(cam.rotation)) + SCALE)
         + SCALE * SCALE * cam.zoom

(* C1: for a camera with zoom > 0, screenToWorld(worldToScreen(p)) returns   *)
(* p itself when rotation = 0 and the zoom product is exact, and otherwise   *)
(* a point within the rounding tolerance of p.                               *)
C1_RoundTrip ==
    (last.op = "roundTrip" /\ camera.zoom > 0) =>
        /\ last.outcome.status = "ok"
        /\ (camera.rotation = 0 /\ ExactZoom(camera, last.in))
               => last.outcome.value = last.in
        /\ WithinTolerance(camera, last.in.x - camera.position.x,
                           last.outcome.value.x - last.in.x)
        /\ WithinTolerance(camera, last.in.y - camera.position.y,
                           last.outcome.value.y - last.in.y)

\* A round trip through a rotated, zoomed camera away from the origin that rounds
C1_Witness ==
    /\ last.op = "roundTrip"
    /\ camera.zoom = SCALE \div 2
    /\ camera.rotation = 1
    /\ camera.position # Vec(0, 0)
    /\ last.outcome.status = "ok"
    /\ last.outcome.value # last.in

(* C2: worldToScreen(p) = rotate((p - position) * zoom, rotation)            *)
(* + (width / 2, height / 2), the rotation skipped when rotation = 0; the    *)
(* default camera maps (0,0) to (400,300) in the 800x600 viewport.           *)
C2_WorldToScreen ==
    (last.op = "worldToScreen") =>
        LET sx == FixMul(last.in.x - camera.position.x, camera.zoom)
            sy == FixMul(last.in.y - camera.position.y, camera.zoom)
            cos == FixCos(camera.rotation)
            sin == FixSin(camera.rotation)
            rx == IF camera.rotation = 0 THEN sx
                  ELSE FixMul(sx, cos) - FixMul(sy, sin)
            ry == IF camera.rotation = 0 THEN sy
                  ELSE FixMul(sx, sin) + FixMul(sy, cos)
        IN  /\ last.out.x = FixFromRatio(viewport.width, 2) + rx
            /\ last.out.y = FixFromRatio(viewport.height, 2) + ry
            /\ (camera = DefaultCamera /\ viewport = DefaultViewport
                   /\ last.in = Vec(0, 0))
                  => last.out = Vec(Fix(400), Fix(300))

\* worldToScreen of an off-centre point under a rotated, zoomed, moved camera
C2_Witness ==
    /\ last.op = "worldToScreen"
    /\ camera.rotation = 1
    /\ camera.zoom = 2 * SCALE
    /\ camera.position # Vec(0, 0)
    /\ last.in = Vec(SCALE, 1)

\* The screen point q lies in the viewport rectangle
InViewport(vp, q) ==
    /\ Fix(vp.x) <= q.x /\ q.x <= Fix(vp.x + vp.width)
    /\ Fix(vp.y) <= q.y /\ q.y <= Fix(vp.y + vp.height)

(* C3: isVisible gives no false negative: a world rectangle containing a     *)
(* point whose worldToScreen image lies in the viewport is reported visible. *)
C3_NoFalseNegative ==
    (/\ last.op = "isVisible"
     /\ camera.zoom > 0
     /\ \E p \in WorldPoints :
            /\ Contains(last.in, p)
            /\ InViewport(viewport, worldToScreen(camera, viewport, p)))
        => last.outcome.value = TRUE

(* C4: with camera.zoom = 0, setCamera or the following screenToWorld or     *)
(* isVisible call ends with an invalid-configuration error.                  *)
C4_ZeroZoomRejected ==
    (camera.zoom = 0 /\ last.op \in {"screenToWorld", "roundTrip", "isVisible"})
        => last.outcome.status = "InvalidConfiguration"

----------------------------------------------------------------------------
(* Animation frame resolver: properties *)

\* The last call resolved a frame
Resolved == last.op \in {"resolve", "drawSprite"}

\* The sum of the scaled durations of the frames before frame i
RECURSIVE AccumulatedBefore(_, _, _)
AccumulatedBefore(frames, speed, i) ==
    IF i <= 1 THEN 0
    ELSE AccumulatedBefore(frames, speed, i - 1) + FixDiv(frames[i - 1], speed)

Total(a) == AccumulatedBefore(a.frames, a.playbackSpeed, Len(a.frames) + 1)

\* Frame i is on screen during [acc_i, acc_i + duration_i / playbackSpeed)
OnScreen(a, i, t) ==
    /\ i \in 1 .. Len(a.frames)
    /\ AccumulatedBefore(a.frames, a.playbackSpeed, i) <= t
    /\ t < AccumulatedBefore(a.frames, a.playbackSpeed, i + 1)

PositiveDurations(a) == \A i \in 1 .. Len(a.frames) : a.frames[i] > 0

ZeroDurations(a) == \A i \in 1 .. Len(a.frames) : a.frames[i] = 0

\* The time at which the frames are walked
EffectiveTime(a, currentTime) ==
    IF a.loop THEN LoopTime(currentTime, Total(a)) ELSE currentTime

\* Three frames of one second each, not looping, at normal speed
ThreeSeconds == [frames |-> <<SCALE, SCALE, SCALE>>, loop |-> FALSE,
                 playbackSpeed |-> SCALE]

(* C5: resolving the frame of an animation without frames fails with an      *)
(* EmptyAnimation error; it returns no "no frame" value and drawSprite does  *)
(* not draw nothing in silence.                                              *)
C5_EmptyAnimationFails ==
    (Resolved /\ last.animation.frames = <<>>)
        => last.outcome.status = "EmptyAnimation"

(* C6: for a non-empty animation with positive durations and an effective    *)
(* time t in [0, totalDuration), the resolver returns frame i exactly when   *)
(* acc_i <= t < acc_i + duration_i / playbackSpeed; three frames of one      *)
(* second give frame 0 at 0.5, frame 1 at 1.0 and frame 2 at 2.5.            *)
C6_FrameIntervals ==
    (/\ Resolved
     /\ last.animation.frames # <<>>
     /\ PositiveDurations(last.animation)
     /\ 0 <= EffectiveTime(last.animation, last.time)
     /\ EffectiveTime(last.animation, last.time) < Total(last.animation))
        => /\ last.outcome.status = "ok"
           /\ \A i \in 1 .. Len(last.animation.frames) :
                  (last.outcome.value = i)
                      <=> OnScreen(last.animation, i,
                                   EffectiveTime(last.animation, last.time))
           /\ (last.animation = ThreeSeconds /\ last.time = FixFromRatio(1, 2))
                  => last.outcome.value = 1
           /\ (last.animation = ThreeSeconds /\ last.time = Fix(1))
                  => last.outcome.value = 2
           /\ (last.animation = ThreeSeconds /\ last.time = FixFromRatio(5, 2))
                  => last.outcome.value = 3

\* A time on the boundary between the first two of three one-second frames
C6_Witness ==
    /\ Resolved
    /\ last.animation = ThreeSeconds
    /\ last.time = Fix(1)
    /\ last.outcome = Returned(2)

C8_ClampAlways ==
    (/\ Resolved
     /\ last.animation.frames # <<>>
     /\ ~last.animation.loop
     /\ last.time > Total(last.animation))
        => last.outcome = Returned(Len(last.animation.frames))

(* C8: a non-looping animation whose totalDuration is not zero resolves      *)
(* every currentTime greater than totalDuration to its last frame.           *)
C8_Clamp ==
    (/\ Resolved
     /\ last.animation.frames # <<>>
     /\ ~last.animation.loop
     /\ Total(last.animation) # 0
     /\ last.time > Total(last.animation))
        => last.outcome = Returned(Len(last.animation.frames))

\* A time two totals past the end of a non-looping animation of two frames
C8_Witness ==
    /\ Resolved
    /\ ~last.animation.loop
    /\ last.animation.frames = <<SCALE \div 2, SCALE \div 2>>
    /\ last.animation.playbackSpeed = SCALE
    /\ last.time = 3 * Total(last.animation)
    /\ last.outcome = Returned(2)

(* C9: when all frame durations are zero and there is a frame, the resolver  *)
(* returns frames[0] at every currentTime, looping or not, and the call      *)
(* divides by no totalDuration of zero.                                      *)
C9_ZeroDuration ==
    (/\ Resolved
     /\ last.animation.frames # <<>>
     /\ ZeroDurations(last.animation))
        => last.outcome = Returned(1)

\* A looping animation of two zero-length frames resolved after its start
C9_Witness ==
    /\ Resolved
    /\ last.animation.frames = <<0, 0>>
    /\ last.animation.loop
    /\ last.time > 0
    /\ last.outcome = Returned(1)

\* The renderer right after construction
FreshSelf == [camera |-> DefaultCamera, viewport |-> DefaultViewport,
              statistics |-> ZeroStatistics]

(* C10: the frame resolved for (animation, currentTime) is the one a         *)
(* renderer fresh from construction resolves, whatever was drawn, resolved   *)
(* or set before; and a resolve leaves the renderer as it was, a drawSprite  *)
(* all of it but the draw counters.                                          *)
C10_Stateless ==
    /\ [](Resolved =>
            last.outcome
              = getCurrentAnimationFrame(FreshSelf, last.animation, last.time))
    /\ [][/\ last'.op = "resolve"
             => UNCHANGED <<camera, viewport, statistics>>
          /\ last'.op = "drawSprite"
             => /\ UNCHANGED <<camera, viewport>>
                /\ statistics'.vertices = statistics.vertices
                /\ statistics'.triangles = statistics.triangles]_vars

\* A sprite drawn by a renderer that has drawn before and whose camera was moved
C10_Witness ==
    /\ last.op = "drawSprite"
    /\ statistics.drawCalls = MaxDraws
    /\ camera # DefaultCamera
    /\ last.animation.loop
    /\ last.time < 0
    /\ last.outcome.status = "ok"
    /\ last.outcome.value > 1

----------------------------------------------------------------------------
(* Debug geometry: properties *)

\* The head size drawArrow works with
HeadSizeOf(headSize) ==
    IF headSize = Omitted THEN FixDiv(debugConfig.axisLength, Fix(10))
    ELSE headSize[1]

(* C11: drawArrow with start = end emits one draw call, the shaft, and no    *)
(* arrowhead line, and ends without an error of the undefined direction.     *)
C11_ZeroLengthArrow ==
    (last.op = "drawArrow" /\ last.start = last.end)
        => /\ last.emitted = <<Line(last.start, last.end,
                                    LineStyle(last.color, Fix(1)))>>
           /\ last.outcome.status = "ok"

(* C12: drawArrow with start # end emits three lines in this order: the      *)
(* shaft (start, end), then (end, headLeft), then (end, headRight), with     *)
(* d = normalize(end - start), perp = (-d.y, d.x),                           *)
(* headBase = end - d * headSize, headLeft = headBase + perp * (headSize/2), *)
(* headRight = headBase - perp * (headSize/2), and headSize = axisLength/10  *)
(* when it is left out.                                                      *)
C12_ArrowLines ==
    (last.op = "drawArrow" /\ last.start # last.end) =>
        LET h == HeadSizeOf(last.headSize)
            d == Normalize(VecSub(last.end, last.start))
            baseX == last.end.x - FixMul(d.x, h)
            baseY == last.end.y - FixMul(d.y, h)
            perpX == 0 - d.y
            perpY == d.x
            half == FixDiv(h, Fix(2))
            style == LineStyle(last.color, Fix(1))
        IN  /\ last.outcome.status = "ok"
            /\ Len(last.emitted) = 3
            /\ last.emitted[1] = Line(last.start, last.end, style)
            /\ last.emitted[2]
                 = Line(last.end, Vec(baseX + FixMul(perpX, half),
                                      baseY + FixMul(perpY, half)), style)
            /\ last.emitted[3]
                 = Line(last.end, Vec(baseX - FixMul(perpX, half),
                                      baseY - FixMul(perpY, half)), style)

\* A slanted arrow with the default head size of a changed axisLength
C12_Witness ==
    /\ last.op = "drawArrow"
    /\ last.headSize = Omitted
    /\ debugConfig.axisLength = Fix(20)
    /\ last.start = Vec(SCALE, 1)
    /\ last.end = Vec(0 - SCALE, 0)
    /\ Len(last.emitted) = 3
    /\ last.emitted[2].end # last.emitted[3].end
    /\ last.emitted[2].end # last.end

\* The x-coordinates of the upright lines among the draw calls
VerticalXs(emitted) ==
    {emitted[i].start.x : i \in {j \in DOMAIN emitted :
                                    emitted[j].start.x = emitted[j].end.x}}

\* A grid of spacing 1 drawn over view bounds from x = -2.4 to x = 5.6
GridExample ==
    /\ last.op = "drawGrid"
    /\ debugConfig.showGrid
    /\ last.spacing = Fix(1)
    /\ last.bounds.x = FixFromRatio(0 - 24, 10)
    /\ last.bounds.x + last.bounds.width = FixFromRatio(56, 10)

(* C13 as stated: the grid of spacing 1 over the x-range [-2.4, 5.6] has     *)
(* upright lines at x = -2, -1, 0, 1, 2, 3, 4, 5 and at no other x.          *)
C13_GridExampleInside ==
    GridExample => VerticalXs(last.emitted) = {Fix(k) : k \in (0 - 2) .. 5}

(* C13: the grid of spacing 1 over the x-range [-2.4, 5.6] has upright lines *)
(* at x = -3, -2, -1, 0, 1, 2, 3, 4, 5 and at no other x: the first is at    *)
(* floor(-2.4) = -3.                                                         *)
C13_GridExample ==
    GridExample => VerticalXs(last.emitted) = {Fix(k) : k \in (0 - 3) .. 5}

\* The example grid, drawn
C13_Witness ==
    /\ GridExample
    /\ last.outcome.status = "ok"
    /\ Len(last.emitted) > 9

\* floor(bound / spacing) * spacing, in exact arithmetic
FloorMultiple(bound, spacing) == (bound \div spacing) * spacing

\* The lines of one axis the claim names: the multiples from the floor up to end
MultiplesUpTo(bound, end, spacing) ==
    [k \in 1 .. (IF FloorMultiple(bound, spacing) <= end
                 THEN (end - FloorMultiple(bound, spacing)) \div spacing + 1
                 ELSE 0) |->
        FloorMultiple(bound, spacing) + (k - 1) * spacing]

\* Where the draw calls run, styles left aside
Geometry(emitted) ==
    [i \in DOMAIN emitted |-> <<emitted[i].start, emitted[i].end>>]

C15_GridSpacingRejected ==
    (last.op = "drawGrid" /\ last.spacing <= 0)
        => /\ last.outcome.status = "InvalidConfiguration"
           /\ last.emitted = <<>>

\* The number of upright lines of the grid drawn last
UprightLines ==
    GridPasses(GridStart(last.bounds.x, last.spacing),
               last.bounds.x + last.bounds.width, last.spacing)

(* C16: with a majorLineStyle and a positive majorLineInterval the k-th line *)
(* of an axis (k from 0, again from 0 for the level lines) has the           *)
(* majorLineStyle exactly when k mod majorLineInterval = 0 and the lineStyle *)
(* otherwise; without either of them every line has the lineStyle.           *)
C16_MajorLines ==
    (last.op = "drawGrid" /\ last.spacing > 0) =>
        \A i \in DOMAIN last.emitted :
            LET k == IF i <= UprightLines THEN i - 1 ELSE i - UprightLines - 1
                major == /\ last.style.majorLineStyle # Omitted
                         /\ last.style.majorLineInterval > 0
                         /\ k % last.style.majorLineInterval = 0
            IN  last.emitted[i].style
                  = IF major THEN last.style.majorLineStyle[1]
                    ELSE last.style.lineStyle

\* A grid with every second line major and an odd number of upright lines
C16_Witness ==
    /\ last.op = "drawGrid"
    /\ last.style.majorLineStyle = Given(MajorLine)
    /\ last.style.majorLineInterval = 2
    /\ last.outcome.status = "ok"
    /\ UprightLines > 2
    /\ UprightLines % 2 = 1
    /\ Len(last.emitted) > UprightLines + 2
    /\ last.emitted[UprightLines].style = MajorLine
    /\ last.emitted[UprightLines + 1].style = MajorLine
    /\ last.emitted[UprightLines + 2].style = MinorLine

----------------------------------------------------------------------------
(* Physics debug geometry: properties *)

\* The one polygon of a draw call, once it is known that there is exactly one
ThePolygon == last.emitted[1]

\* The vertex of the arc at the sample angle `angle`
ArcPoint(angle) ==
    VecAdd(last.center, Vec(FixMul(FixCosOf(angle), last.radius),
                            FixMul(FixSinOf(angle), last.radius)))

\* One polygon of 18 vertices: the centre, then the arc points of the samples
ArcPolygon ==
    /\ Len(last.emitted) = 1
    /\ ThePolygon.primitive = "polygon"
    /\ Len(ThePolygon.vertices) = 18
    /\ ThePolygon.vertices[1] = last.center
    /\ \A i \in 0 .. 16 : ThePolygon.vertices[i + 2] = ArcPoint(last.angles[i + 1])

ScaleOf(kind) ==
    CASE kind = "drawVelocity" -> physicsConfig.velocityScale
      [] kind = "drawAcceleration" -> physicsConfig.accelerationScale
      [] kind = "drawForceVector" -> physicsConfig.forceScale
      [] kind = "drawContactImpulse" -> physicsConfig.impulseScale

ColorKeyOf(kind) ==
    CASE kind = "drawVelocity" -> "velocity"
      [] kind = "drawAcceleration" -> "acceleration"
      [] kind = "drawForceVector" -> "force"
      [] kind = "drawContactImpulse" -> "contactImpulse"

VectorKinds ==
    {"drawVelocity", "drawAcceleration", "drawForceVector", "drawContactImpulse"}

\* The shaft of the arrow from point to point + vector * scale
ScaledShaft(point, vector, scale, colorKey) ==
    Line(point, VecAdd(point, VecScale(vector, scale)),
         LineStyle(ColorOf(physicsConfig, colorKey), Fix(1)))

(* C18: drawForceVector, drawVelocity, drawAcceleration, drawContactImpulse  *)
(* and the impulse arrows of drawContactPoints draw the arrow from the point *)
(* to point + vector * scale, scale being the configured factor of the kind, *)
(* applied once.  For a contact the vector is its normal and the factor its  *)
(* normal impulse times impulseScale.                                        *)
C18_ScaledOnce ==
    /\ last.op \in VectorKinds =>
           /\ Len(last.emitted) >= 1
           /\ last.emitted[1] = ScaledShaft(last.point, last.vector,
                                            ScaleOf(last.op), ColorKeyOf(last.op))
    /\ (/\ last.op = "drawContactPoints"
        /\ physicsConfig.showContacts
        /\ physicsConfig.showContactImpulses
        /\ last.outcome = Returned(TRUE)) =>
           \A i \in DOMAIN last.contacts :
               \E j \in DOMAIN last.emitted :
                   last.emitted[j]
                     = ScaledShaft(last.contacts[i].position,
                                   last.contacts[i].normal,
                                   FixMul(last.contacts[i].normalImpulse,
                                          physicsConfig.impulseScale),
                                   "contactImpulse")

\* The corner signs in the order of the polygon
CornerSigns == <<Vec(0 - 1, 0 - 1), Vec(1, 0 - 1), Vec(1, 1), Vec(0 - 1, 1)>>

(* C19: drawBoxCollider emits one polygon of four vertices, the corners      *)
(* center + R(rotation) * (+-w/2, +-h/2) in the order (-,-), (+,-), (+,+),   *)
(* (-,+); its style has only the fill colour when filled, and only the       *)
(* stroke colour with stroke thickness 1 when not.                           *)
C19_BoxCorners ==
    last.op = "drawBoxCollider" =>
        LET halfW == FixDiv(last.size.x, Fix(2))
            halfH == FixDiv(last.size.y, Fix(2))
            shape == ColorOf(physicsConfig, "shape")
        IN  /\ Len(last.emitted) = 1
            /\ ThePolygon.primitive = "polygon"
            /\ Len(ThePolygon.vertices) = 4
            /\ \A i \in 1 .. 4 :
                   ThePolygon.vertices[i]
                     = VecAdd(last.center,
                              Rotate(Vec(CornerSigns[i].x * halfW,
                                         CornerSigns[i].y * halfH),
                                     FixCos(last.rotation), FixSin(last.rotation)))
            /\ ThePolygon.style
                 = IF last.filled
                   THEN [fillColor |-> shape, strokeColor |-> "none",
                         strokeThickness |-> 0]
                   ELSE [fillColor |-> "none", strokeColor |-> shape,
                         strokeThickness |-> Fix(1)]

\* An outlined box, wider than high, turned by an eighth of a turn
C19_Witness ==
    /\ last.op = "drawBoxCollider"
    /\ last.size.x > last.size.y
    /\ last.size.y > 1
    /\ last.rotation = 1
    /\ ~last.filled
    /\ Len(last.emitted) = 1
    /\ ThePolygon.vertices[3] # ThePolygon.vertices[4]
    /\ ThePolygon.vertices[1] # last.center

\* The calls C20 names, with an input the claim calls malformed
Malformed ==
    \/ last.op = "drawPolygonCollider" /\ last.vertices = <<>>
    \/ last.op = "drawCircleCollider" /\ last.radius <= 0
    \/ last.op = "drawBoxCollider" /\ (last.size.x <= 0 \/ last.size.y <= 0)
    \/ last.op = "drawCrosshair" /\ last.size <= 0
    \/ last.op = "drawJointLimits" /\ last.radius <= 0

(* C20: drawPolygonCollider with no vertices, drawCircleCollider with a      *)
(* radius <= 0, drawBoxCollider with a size that is not positive, and        *)
(* drawCrosshair and drawJointLimits with a size or radius that is not       *)
(* positive emit nothing and end with an error.                              *)
C20_MalformedRejected ==
    Malformed => /\ last.emitted = <<>>
                 /\ last.outcome # Returned(TRUE)

----------------------------------------------------------------------------
(* Configuration, camera and retained state: properties *)

(* What the claim says a patch makes of a configuration: a top-level member  *)
(* is the patch's when the patch names it and the old one otherwise, and so  *)
(* is every colour, which stays defined.                                     *)
MergedByKey(old, patch, new) ==
    /\ \A k \in DOMAIN old \ {"colors"} :
           /\ k \in DOMAIN new
           /\ new[k] = IF k \in DOMAIN patch THEN patch[k] ELSE old[k]
    /\ \A c \in DOMAIN old.colors :
           /\ c \in DOMAIN new.colors
           /\ new.colors[c]
                = IF "colors" \in DOMAIN patch /\ c \in DOMAIN patch.colors
                  THEN patch.colors[c]
                  ELSE old.colors[c]

(* C21: each setDebugConfig / setPhysicsDebugConfig call leaves every        *)
(* top-level member and every colour at the value the patch gives it, or at  *)
(* its previous value when the patch does not name it, so that after any     *)
(* sequence of patches each holds the value of the last patch that named it  *)
(* (or its default), and no colour ever becomes undefined.                   *)
C21_ConfigMerge ==
    [][/\ last'.op = "setDebugConfig"
           => MergedByKey(debugConfig, last'.in, debugConfig')
       /\ last'.op = "setPhysicsDebugConfig"
           => MergedByKey(physicsConfig, last'.in, physicsConfig')]_vars

RECURSIVE Composed(_)
\* The transforms of a list multiplied in their order, starting from identity
Composed(transforms) ==
    IF transforms = <<>> THEN Identity
    ELSE Multiply(Composed(SubSeq(transforms, 1, Len(transforms) - 1)),
                  transforms[Len(transforms)])

(* C27: the current transform is the composition, in push order and from     *)
(* identity, of the transforms pushed and not yet popped, and the stack      *)
(* holds, level by level, the transform that was current before each of      *)
(* those pushes, so that the matching pop restores it; a pop on an empty     *)
(* stack leaves the current transform as it was.                             *)
C27_TransformStack ==
    /\ currentTransform = Composed(pushed)
    /\ Len(transformStack) = Len(pushed)
    /\ \A i \in DOMAIN transformStack :
           transformStack[i] = Composed(SubSeq(pushed, 1, i - 1))
    /\ last.op = "pushTransform" =>
           transformStack[Len(transformStack)] = last.before
    /\ (last.op = "popTransform" /\ last.depth = 0) =>
           currentTransform = last.before /\ transformStack = <<>>

\* A pop that has brought back a transform other than identity
C27_Witness ==
    /\ last.op = "popTransform"
    /\ last.depth = 2
    /\ Len(pushed) = 1
    /\ currentTransform # Identity
    /\ currentTransform # last.before
    /\ currentTransform = Multiply(Identity, pushed[1])

----------------------------------------------------------------------------
(* Lights and layers: properties *)

\* Every light but the one named is as it was
OtherLightsKept(id) ==
    \A k \in DOMAIN lights \ {id} : k \in DOMAIN lights' /\ lights'[k] = lights[k]

(* C29: the id addLight returns was never returned before, also not for a    *)
(* light removed since; the registered lights are the ids added and not yet  *)
(* removed, each call changing the set by the one id it names; removeLight   *)
(* and updateLight with an unknown id change nothing and notify nobody.      *)
C29_Lights ==
    [][/\ last'.op = "addLight" =>
              /\ last'.value \notin issued
              /\ DOMAIN lights' = DOMAIN lights \cup {last'.value}
              /\ lights'[last'.value] = last'.in
              /\ OtherLightsKept(last'.value)
       /\ last'.op = "removeLight" =>
              IF last'.id \in DOMAIN lights
              THEN /\ DOMAIN lights' = DOMAIN lights \ {last'.id}
                   /\ OtherLightsKept(last'.id)
              ELSE lights' = lights /\ last'.notified = <<>>
       /\ last'.op = "updateLight" =>
              IF last'.id \in DOMAIN lights
              THEN /\ DOMAIN lights' = DOMAIN lights
                   /\ OtherLightsKept(last'.id)
              ELSE lights' = lights /\ last'.notified = <<>>
       /\ last'.op \notin {"addLight", "removeLight", "updateLight"} =>
              lights' = lights
       /\ DOMAIN lights' \subseteq issued']_vars

\* A third light added after the first was removed: its id is a new one
C29_Witness ==
    /\ last.op = "addLight"
    /\ last.value = LightId(2)
    /\ DOMAIN lights = {LightId(1), LightId(2)}
    /\ issued = {LightId(0), LightId(1), LightId(2)}

\* The elements of a sequence
Range(seq) == {seq[i] : i \in DOMAIN seq}

\* The layers of a list other than the one with this id
Others(list, id) == {l \in Range(list) : l.id # id}

(* C30: getLayers has one layer for each id created and not yet removed,     *)
(* with its latest depth and visibility, in non-decreasing depth order:      *)
(* createLayer puts the layer [id, depth, visible] in the place of any layer *)
(* of that id, removeLayer takes the layer of the id away, setLayerDepth and *)
(* setLayerVisible change that member of the layer of the id, and with an    *)
(* unknown id the three of them change nothing.                              *)
C30_Layers ==
    [][LET was == getLayers(layers)
           now == getLayers(layers')
           id == last'.id
           known == \E l \in Range(was) : l.id = id
           old == CHOOSE l \in Range(was) : l.id = id
       IN  /\ \A i, j \in DOMAIN now :
                  /\ i < j => now[i].depth <= now[j].depth
                  /\ i # j => now[i].id # now[j].id
           /\ last'.op = "createLayer" =>
                  Range(now) = Others(was, id)
                      \cup {[id |-> id, depth |-> last'.depth, visible |-> TRUE]}
           /\ last'.op = "removeLayer" =>
                  /\ Range(now) = Others(was, id)
                  /\ ~known => layers' = layers /\ last'.notified = <<>>
           /\ last'.op = "setLayerDepth" =>
                  IF known
                  THEN Range(now) = Others(was, id)
                           \cup {[old EXCEPT !.depth = last'.depth]}
                  ELSE layers' = layers /\ last'.notified = <<>>
           /\ last'.op = "setLayerVisible" =>
                  IF known
                  THEN Range(now) = Others(was, id)
                           \cup {[old EXCEPT !.visible = last'.visible]}
                  ELSE layers' = layers /\ last'.notified = <<>>
           /\ last'.op = "getLayers" =>
                  last'.value = was /\ layers' = layers]_vars

\* Three layers handed out in an order that is not the order of their creation
C30_Witness ==
    /\ last.op = "getLayers"
    /\ Len(last.value) = 3
    /\ last.value # layers
    /\ last.value[1].depth < last.value[2].depth
    /\ last.value[2].depth = last.value[3].depth
    /\ \E i \in 1 .. 3 : ~last.value[i].visible

----------------------------------------------------------------------------
(* The resolver at and around the ends of an animation: properties *)

\* Every frame is on screen for some time: duration / playbackSpeed > 0
PositiveScreenTimes(a) ==
    \A i \in 1 .. Len(a.frames) : FixDiv(a.frames[i], a.playbackSpeed) > 0

(* C24: for an animation that does not loop and whose frames all have a      *)
(* positive duration, a currentTime equal to totalDuration resolves to the   *)
(* last frame, as every later currentTime does, and no earlier currentTime   *)
(* resolves to a frame behind the one resolved.                              *)
C24_EndTieBreak ==
    (/\ Resolved
     /\ last.animation.frames # <<>>
     /\ ~last.animation.loop
     /\ PositiveScreenTimes(last.animation))
        => /\ last.time >= Total(last.animation)
               => last.outcome = Returned(Len(last.animation.frames))
           /\ \A earlier \in Times :
                  earlier <= last.time
                      => getCurrentAnimationFrame(Self, last.animation, earlier).value
                           <= last.outcome.value

\* Two frames, resolved at exactly the total duration
C24_Witness ==
    /\ Resolved
    /\ ~last.animation.loop
    /\ last.animation.frames = <<SCALE, SCALE \div 2>>
    /\ last.animation.playbackSpeed = SCALE
    /\ last.time = Total(last.animation)
    /\ last.outcome = Returned(2)

(* C25: for an animation with a frame and a playbackSpeed > 0, looping or    *)
(* not, and every currentTime, the resolver returns one of the frames of the *)
(* animation and never "no frame"; when the animation does not loop a        *)
(* negative currentTime resolves to frames[0].                               *)
C25_AlwaysAFrame ==
    (/\ Resolved
     /\ last.animation.frames # <<>>
     /\ last.animation.playbackSpeed > 0)
        => /\ last.outcome.status = "ok"
           /\ last.outcome.value # NoFrame
           /\ last.outcome.value \in 1 .. Len(last.animation.frames)
           /\ (~last.animation.loop /\ last.time < 0) => last.outcome.value = 1

\* A negative time in an animation that does not loop and is longer than zero
C25_Witness ==
    /\ Resolved
    /\ ~last.animation.loop
    /\ Len(last.animation.frames) = 2
    /\ Total(last.animation) > 0
    /\ last.time < 0
    /\ last.outcome = Returned(1)

----------------------------------------------------------------------------
(* The size of a grid: properties *)

\* The lines of the grid that run from the lower to the upper edge of the bounds
Uprights ==
    SelectSeq(last.emitted,
              LAMBDA l : l.start.x = l.end.x /\ l.start.y = last.bounds.y
                         /\ l.end.y = last.bounds.y + last.bounds.height)

\* Those that run from the left to the right edge
Levels ==
    SelectSeq(last.emitted,
              LAMBDA l : l.start.y = l.end.y /\ l.start.x = last.bounds.x
                         /\ l.end.x = last.bounds.x + last.bounds.width)

(* C26: with a spacing > 0 and view bounds of non-negative width and height  *)
(* drawGrid returns, and it emits at most floor(extent / spacing) + 2 lines  *)
(* for either axis.                                                          *)
C26_GridBounded ==
    (/\ last.op = "drawGrid"
     /\ last.spacing > 0
     /\ last.bounds.width >= 0
     /\ last.bounds.height >= 0)
        => LET across == last.bounds.width \div last.spacing + 2
               upward == last.bounds.height \div last.spacing + 2
           IN  /\ last.outcome = Returned(TRUE)
               /\ Len(last.emitted) <= across + upward
               /\ (last.bounds.width > 0 /\ last.bounds.height > 0)
                      => /\ Len(Uprights) <= across
                         /\ Len(Levels) <= upward
                         /\ Len(last.emitted) = Len(Uprights) + Len(Levels)

\* A grid with as many upright lines as the bound allows
C26_Witness ==
    /\ last.op = "drawGrid"
    /\ last.spacing > 0
    /\ last.bounds.width > 0
    /\ last.bounds.height > 0
    /\ last.outcome = Returned(TRUE)
    /\ Len(Uprights) = last.bounds.width \div last.spacing + 2
    /\ Len(Levels) > 0

----------------------------------------------------------------------------
(* The camera is replaced whole: properties *)

\* The members of CameraConfig that may be left out
OptionalMembers == {"bounds", "followTarget", "followSpeed", "deadZone"}

(* C22: setCamera makes the configuration it is given the camera, member for  *)
(* member: an optional member (bounds, followTarget, followSpeed, deadZone)   *)
(* the new configuration leaves out is not kept from the camera before; and   *)
(* no other operation changes the camera getCamera returns.                   *)
C22_CameraReplaced ==
    [][IF last'.op = "setCamera"
       THEN /\ DOMAIN camera' = DOMAIN last'.in
            /\ \A k \in DOMAIN camera' : camera'[k] = last'.in[k]
            /\ \A k \in OptionalMembers :
                   k \notin DOMAIN last'.in => k \notin DOMAIN camera'
       ELSE camera' = camera]_vars

(* A camera with bounds was replaced by one that follows a target and names  *)
(* no bounds, and the renderer's camera has none.                            *)
C22_Witness ==
    /\ last.op = "setCamera"
    /\ "bounds" \in DOMAIN last.replaced
    /\ "bounds" \notin DOMAIN last.in
    /\ "followTarget" \in DOMAIN last.in
    /\ camera = last.in
    /\ "bounds" \notin DOMAIN camera

----------------------------------------------------------------------------
(* Drawing and converting leave the renderer's settings alone: properties *)

DrawOperations ==
    {"drawArrow", "drawGrid", "drawCrosshair", "drawJointLimits",
     "drawContactPoints", "drawBoxCollider", "drawSprite"}

Conversions == {"worldToScreen", "screenToWorld", "isVisible"}

(* C23: drawArrow, drawGrid, drawCrosshair, drawJointLimits,                  *)
(* drawContactPoints, drawBoxCollider and drawSprite, and worldToScreen,      *)
(* screenToWorld and isVisible, leave the camera, the viewport, the debug     *)
(* and the physics configuration and the transform and render-state stacks   *)
(* (with the current transform and render state) as they were; of the draw   *)
(* operations only the statistics change, of the conversions nothing.        *)
C23_DrawsKeepSettings ==
    [][/\ last'.op \in DrawOperations \cup Conversions
           => /\ camera' = camera
              /\ viewport' = viewport
              /\ debugConfig' = debugConfig
              /\ physicsConfig' = physicsConfig
              /\ transformStack' = transformStack
              /\ currentTransform' = currentTransform
              /\ renderStateStack' = renderStateStack
              /\ currentRenderState' = currentRenderState
              /\ lights' = lights
              /\ layers' = layers
       /\ last'.op \in Conversions => statistics' = statistics]_vars

(* A crosshair drawn, and counted, by a renderer whose camera, viewport and   *)
(* configurations were set and whose stacks hold a transform and a state     *)
C23_Witness ==
    /\ last.op = "drawCrosshair"
    /\ Len(last.emitted) = 2
    /\ statistics.drawCalls >= 2
    /\ "bounds" \in DOMAIN camera
    /\ viewport = RendererViewport
    /\ ~debugConfig.showGrid
    /\ physicsConfig.showContacts
    /\ Len(transformStack) = 2
    /\ currentTransform # Identity
    /\ renderStateStack # <<>>

----------------------------------------------------------------------------
(* Statistics: properties *)

\* How many of the calls handed to the backend are of one of the kinds
CallsOf(emitted, kinds) ==
    Cardinality({i \in DOMAIN emitted : emitted[i].primitive \in kinds})

RECURSIVE VerticesUpTo(_, _)
\* The vertices of the polygons among the first n calls, added up
VerticesUpTo(emitted, n) ==
    IF n = 0 THEN 0
    ELSE VerticesUpTo(emitted, n - 1)
         + (IF emitted[n].primitive = "polygon" THEN Len(emitted[n].vertices)
            ELSE 0)

EveryPrimitive ==
    {"line", "circle", "rect", "polygon", "ellipse", "text", "texture",
     "textureRegion"}

(* C28: beginFrame and resetStatistics set drawCalls, textureBinds and       *)
(* vertices to zero; an operation that draws raises drawCalls by the number   *)
(* of primitive calls it makes (drawLine, drawCircle, drawRect, drawPolygon,  *)
(* drawEllipse, drawText, drawTexture, drawTextureRegion, those made inside   *)
(* a composite draw included), textureBinds by the number of drawTexture and  *)
(* drawTextureRegion calls among them and vertices by the sum of the polygon  *)
(* calls' vertex counts; and no other operation changes the three, so that    *)
(* each holds its count since the last beginFrame or resetStatistics.         *)
C28_Statistics ==
    [][IF last'.op \in {"beginFrame", "resetStatistics"}
       THEN /\ statistics'.drawCalls = 0
            /\ statistics'.textureBinds = 0
            /\ statistics'.vertices = 0
       ELSE IF "emitted" \in DOMAIN last'
       THEN /\ CallsOf(last'.emitted, EveryPrimitive) = Len(last'.emitted)
            /\ statistics'.drawCalls = statistics.drawCalls + Len(last'.emitted)
            /\ statistics'.textureBinds
                 = statistics.textureBinds
                   + CallsOf(last'.emitted, {"texture", "textureRegion"})
            /\ statistics'.vertices
                 = statistics.vertices
                   + VerticesUpTo(last'.emitted, Len(last'.emitted))
       ELSE /\ statistics'.drawCalls = statistics.drawCalls
            /\ statistics'.textureBinds = statistics.textureBinds
            /\ statistics'.vertices = statistics.vertices]_vars

(* An arrow of three lines drawn after a texture and before anything cleared  *)
(* the counts: four draw calls, one texture bind                              *)
C28_Witness ==
    /\ last.op = "drawArrow"
    /\ Len(last.emitted) = 3
    /\ statistics.drawCalls = 4
    /\ statistics.textureBinds = 1
    /\ statistics.vertices = 0

====
